---- MODULE Spec2Model ----
(***************************************************************************)
(* RooUnfold base class (src/UE_in_pp/analysis/roounfold/src/RooUnfold.cxx) *)
(* as a state machine: one RooUnfold instance `this`, its public methods as *)
(* actions, the lazy result caches and their flags as state.                *)
(*                                                                         *)
(* Conventions.                                                            *)
(*  - A C++ pointer is a sequence of length <= 1: <<>> is the null pointer, *)
(*    <<v>> points to an object with value v.                               *)
(*  - TVectorD is a sequence, TMatrixD a sequence of rows; C++ index i is   *)
(*    TLA+ index i+1.                                                       *)
(*  - A 1-D TH1 is [nx, c, e]: c and e hold contents and errors of bins     *)
(*    0..nx+1 (underflow, nx regular bins, overflow) at indices 1..nx+2.    *)
(*  - Double_t values are exact: integers, and rationals <<num, den>> where *)
(*    the code divides (floating-point rounding is not modelled).           *)
(*  - A method is an operator from the instance (a record of its fields) to *)
(*    a frame [self, trace, ret]: the instance after the call, the virtual  *)
(*    hooks and toy steps the call executed, and its return value.          *)
(***************************************************************************)
EXTENDS Integers, Sequences, FiniteSets, TLC

VARIABLES
  this,            \* the RooUnfold instance: a record of its data members
  UsePoissonToys,  \* static bool RooUnfold::UsePoissonToys
  calls,           \* instrumentation: hook executions on `this` since the last Init()
  last,            \* instrumentation: the last public call, its result and its trace
  nset,            \* instrumentation: configuration calls made since construction
  aux              \* a helper of the class studied on its own: its inputs, its
                   \* position and its result (NoAux while the instance is studied)

vars == <<this, UsePoissonToys, calls, last, nset, aux>>

----------------------------------------------------------------------------
(* Bounds of the model *)

\* largest number of configuration calls (setters, resets, assignments) explored
\* after the initial state; result requests are not limited
MaxSets == 1
\* largest toy count for which a kCovToy request is explored
MaxToys == 2

(* Program constants *)

\* _NToys=50 in Init()
DefaultNToys == 50
\* _verbose= 1 in Init()
DefaultVerbose == 1

----------------------------------------------------------------------------
(* Generic helpers: vectors, matrices, exact arithmetic *)

Min(a, b) == IF a < b THEN a ELSE b
Abs(a) == IF a < 0 THEN -a ELSE a

RECURSIVE Gcd(_, _)
Gcd(a, b) == IF b = 0 THEN a ELSE Gcd(b, a % b)

\* the rational n/d in lowest terms with a positive denominator
Frac(n, d) ==
  LET g == Gcd(Abs(n), Abs(d))
      s == IF d < 0 THEN -1 ELSE 1
  IN  <<s * (n \div g), s * (d \div g)>>

RatSub(p, q) == Frac(p[1] * q[2] - q[1] * p[2], p[2] * q[2])
RatDivInt(p, k) == Frac(p[1], p[2] * k)
RatAdd(p, q) == Frac(p[1] * q[2] + q[1] * p[2], p[2] * q[2])
RatMul(p, q) == Frac(p[1] * q[1], p[2] * q[2])
RatDiv(p, q) == Frac(p[1] * q[2], p[2] * q[1])
\* an integer-valued Double_t as a rational
Rat(x) == <<x, 1>>

\* TVectorD(n), TMatrixD(n, m): zero-initialised
ZeroVec(n) == [i \in 1..n |-> 0]
ZeroMat(n, m) == [i \in 1..n |-> [j \in 1..m |-> 0]]

\* TVectorD::ResizeTo / TMatrixD::ResizeTo: keep the overlap, zero the rest
ResizeVec(v, n) == [i \in 1..n |-> IF i <= Len(v) THEN v[i] ELSE 0]
ResizeMat(m, n, k) ==
  [i \in 1..n |-> [j \in 1..k |->
     IF i <= Len(m) /\ j <= Len(m[i]) THEN m[i][j] ELSE 0]]

IsNull(p) == p = <<>>
Deref(p) == p[1]
New(v) == <<v>>

----------------------------------------------------------------------------
(* ROOT histograms and RooUnfoldResponse (collaborators of the class) *)

NoHist == [nx |-> 0, c |-> <<>>, e |-> <<>>]

\* TH1::GetBinContent / GetBinError: a bin number outside 0..nx+1 is clamped
ClampBin(h, b) == IF b < 0 THEN 0 ELSE IF b > h.nx + 1 THEN h.nx + 1 ELSE b
GetBinContent(h, b) == h.c[ClampBin(h, b) + 1]
GetBinError(h, b) == h.e[ClampBin(h, b) + 1]

\* TH1::SetBinContent / SetBinError: a bin number outside 0..nx+1 is ignored
SetBin(h, b, cv, ev) ==
  IF b < 0 \/ b > h.nx + 1 THEN h
  ELSE [h EXCEPT !.c[b + 1] = cv, !.e[b + 1] = ev]

\* TH1::Reset: all contents and errors zero
ResetHist(h) == [h EXCEPT !.c = ZeroVec(h.nx + 2), !.e = ZeroVec(h.nx + 2)]

\* RooUnfoldResponse::GetBin for a 1-D histogram
GetBin(h, i, overflow) == i + (IF overflow = 1 THEN 0 ELSE 1)

\* a response: bin counts and overflow policy; its measured histogram has
\* GetNbinsMeasured() bins
Responses ==
  {[nm |-> 1, nt |-> 2, overflow |-> FALSE], [nm |-> 1, nt |-> 1, overflow |-> TRUE]}

UseOverflowStatus(r) == r.overflow
GetNbinsMeasured(r) == r.nm
GetNbinsTruth(r) == r.nt
ResHmeasured(r) ==
  [nx |-> r.nm, c |-> [b \in 1..(r.nm + 2) |-> 1], e |-> [b \in 1..(r.nm + 2) |-> 1]]

\* RooUnfoldResponse::H2V / H2VE: histogram contents / errors as a vector
H2V(h, nb, overflow) ==
  LET n == IF overflow = 1 THEN nb + 2 ELSE nb
  IN  [i \in 1..n |-> GetBinContent(h, GetBin(h, i - 1, overflow))]
H2VE(h, nb, overflow) ==
  LET n == IF overflow = 1 THEN nb + 2 ELSE nb
  IN  [i \in 1..n |-> GetBinError(h, GetBin(h, i - 1, overflow))]

----------------------------------------------------------------------------
(* Inputs the caller can pass *)

\* caller-owned measured histograms: one with the bin count of the responses'
\* measured histograms and one with another bin count and other contents
HistA(nx) ==
  [nx |-> nx,
   c  |-> [b \in 1..(nx + 2) |-> IF b = 1 \/ b = nx + 2 THEN 0 ELSE b - 1],
   e  |-> [b \in 1..(nx + 2) |-> IF b = 1 \/ b = nx + 2 THEN 0 ELSE 1]]
HistB(nx) ==
  [nx |-> nx,
   c  |-> [b \in 1..(nx + 2) |-> IF b = 1 THEN 0 ELSE IF b = nx + 2 THEN 1 ELSE 4],
   e  |-> [b \in 1..(nx + 2) |-> IF b = 1 THEN 0 ELSE IF b = nx + 2 THEN 1 ELSE 2]]
Hists == {HistA(1), HistB(2)}

\* measured vectors, error vectors and covariance matrices of length n
VecInputs(n) == {[i \in 1..n |-> 3]}
ErrInputs(n) == {[i \in 1..n |-> i % 2]}
CovInputs(n) == {[i \in 1..n |-> [j \in 1..n |-> IF i = j THEN 4 ELSE 0]]}

ErrorTreatments == {"kNoError", "kErrors", "kCovariance", "kCovToy"}
ToyCounts == 1..MaxToys


----------------------------------------------------------------------------
(* Frames *)

\* toys: one record per toy clone the call created; cerr: the warnings the call
\* wrote to cerr
Frame(s, t, r) == [self |-> s, trace |-> t, ret |-> r, toys |-> <<>>, cerr |-> <<>>]
Void(s) == Frame(s, <<>>, TRUE)

----------------------------------------------------------------------------
(* Construction, reset *)

\* RooUnfold::GetSettings sets the four regularisation-scan members to 0;
\* they are read by no other method of the class and are left out of the record.

\* RooUnfold::Init. _LL is a sequence of log-likelihood values to be added:
\* <<>> is _LL = 0.0
InitObj ==
  [_res |-> <<>>, _vMes |-> <<>>, _eMes |-> <<>>, _covMes |-> <<>>, _covL |-> <<>>,
   _meas |-> [kind |-> "null", h |-> NoHist], _measmine |-> <<>>,
   _nm |-> 0, _nt |-> 0, _verbose |-> DefaultVerbose, _overflow |-> 0,
   _unfolded |-> FALSE, _haveCov |-> FALSE, _haveCovMes |-> FALSE, _fail |-> FALSE,
   _have_err_mat |-> FALSE, _haveErrors |-> FALSE,
   _NToys |-> DefaultNToys, _LL |-> <<>>,
   _rec |-> <<>>, _variances |-> <<>>, _cov |-> <<>>, _err_mat |-> <<>>]

\* Variant of Reset whose Init() leaves _fail as it was (C6 does not hold of it)
ResetKeepingFail(s) ==
  [InitObj EXCEPT !._rec = s._rec, !._variances = s._variances,
                  !._cov = s._cov, !._err_mat = s._err_mat, !._fail = s._fail]

\* RooUnfold::Reset: Destroy() releases the five owned objects, Init() nulls the
\* pointers and clears the flags. _rec, _variances, _cov and _err_mat are value
\* members that Init() does not touch.
Reset(s) ==
  [InitObj EXCEPT !._rec = s._rec, !._variances = s._variances,
                  !._cov = s._cov, !._err_mat = s._err_mat]

\* RooUnfold::SetResponse
SetResponse(s, res) ==
  LET ov == IF UseOverflowStatus(res) THEN 1 ELSE 0
  IN  [s EXCEPT !._res = New(res),
                !._overflow = ov,
                !._nm = GetNbinsMeasured(res) + (IF ov = 1 THEN 2 ELSE 0),
                !._nt = GetNbinsTruth(res) + (IF ov = 1 THEN 2 ELSE 0)]

\* Variant of SetMeasured (const TH1*) that also drops the unfolded result (C5
\* does not hold of it)
SetMeasuredInvalidating(s, meas) ==
  [s EXCEPT !._meas = meas, !._vMes = <<>>, !._eMes = <<>>, !._unfolded = FALSE]

\* RooUnfold::SetMeasured (const TH1*)
SetMeasuredExt(s, meas) ==
  [s EXCEPT !._meas = meas, !._vMes = <<>>, !._eMes = <<>>]

\* RooUnfold::Setup
Setup(s, res, meas) == SetMeasuredExt(SetResponse(Reset(s), res), meas)

\* the histogram _meas points to
MeasHist(s) == IF s._meas.kind = "mine" THEN Deref(s._measmine) ELSE s._meas.h
ExtHist(h) == [kind |-> "ext", h |-> h]

(* Measured distribution: lazy vectors, setters, covariance *)

\* RooUnfold::Vmeasured / Emeasured (RooUnfold.h): _vMes / _eMes are created from
\* the measured histogram on first use and kept until SetMeasured deletes them
WithVMes(s) ==
  IF IsNull(s._vMes)
  THEN [s EXCEPT !._vMes =
          New(H2V(MeasHist(s), GetNbinsMeasured(Deref(s._res)), s._overflow))]
  ELSE s
WithEMes(s) ==
  IF IsNull(s._eMes)
  THEN [s EXCEPT !._eMes =
          New(H2VE(MeasHist(s), GetNbinsMeasured(Deref(s._res)), s._overflow))]
  ELSE s
Vmeasured(s) == Deref(WithVMes(s)._vMes)
Emeasured(s) == Deref(WithEMes(s)._eMes)

\* sqrt of a perfect square (the covariance inputs have square diagonals)
Sqrt(x) == CHOOSE r \in 0..x : r * r = x

\* the loop of RooUnfold::SetMeasured (const TVectorD&, const TVectorD&)
RECURSIVE FillMeasmine(_, _, _, _, _)
FillMeasmine(h, meas, err, i, s) ==
  IF i >= s._nm THEN h
  ELSE FillMeasmine(SetBin(h, GetBin(h, i, s._overflow), meas[i + 1], err[i + 1]),
                    meas, err, i + 1, s)

\* RooUnfold::SetMeasured (const TVectorD&, const TVectorD&)
SetMeasuredVec(s, meas, err) ==
  SetMeasuredExt(
    [s EXCEPT !._measmine =
       New(FillMeasmine(IF IsNull(s._measmine)
                        THEN ResetHist(ResHmeasured(Deref(s._res)))
                        ELSE Deref(s._measmine),
                        meas, err, 0, s))],
    [kind |-> "mine", h |-> NoHist])

\* Variant of SetMeasuredCov that keeps the Cholesky factor of the covariance it
\* replaces (C26 does not hold of it)
SetMeasuredCovKeepingL(s, cov) ==
  [s EXCEPT !._eMes = New([i \in 1..s._nm |->
                             IF cov[i][i] > 0 THEN Sqrt(cov[i][i]) ELSE 0]),
            !._covMes = New(cov),
            !._haveCovMes = TRUE]

\* RooUnfold::SetMeasuredCov
SetMeasuredCov(s, cov) ==
  [s EXCEPT !._covL = <<>>,
            !._eMes = New([i \in 1..s._nm |->
                             IF cov[i][i] > 0 THEN Sqrt(cov[i][i]) ELSE 0]),
            !._covMes = New(cov),
            !._haveCovMes = TRUE]

\* SetMeasured (meas, Emeasured()) on an instance whose _eMes exists
SetMeasuredOwnErr(s, meas) == SetMeasuredVec(s, meas, Deref(s._eMes))

\* RooUnfold::SetMeasured (const TVectorD&, const TMatrixD&)
SetMeasuredVecCov(s, meas, cov) ==
  SetMeasuredOwnErr(WithEMes(SetMeasuredCov(s, cov)), meas)

\* the diagonal matrix GetMeasuredCov creates from the errors err= Emeasured()
DiagCov(s) ==
  [s EXCEPT !._covMes =
     New([i \in 1..s._nm |-> [j \in 1..s._nm |->
            IF i = j THEN Deref(s._eMes)[i] * Deref(s._eMes)[i] ELSE 0]])]

\* RooUnfold::GetMeasuredCov: the instance after the call; the matrix returned is
\* Deref of its _covMes
GetMeasuredCov(s) ==
  IF ~IsNull(s._covMes) THEN s ELSE DiagCov(WithEMes(s))

----------------------------------------------------------------------------
(* Unfolding and its error computations *)

\* the body of RooUnfold::Unfold, with _vMes created by Vmeasured()
CopyInput(s) ==
  Frame([s EXCEPT !._rec = [i \in 1..s._nt |->
                              IF i <= Min(s._nm, s._nt) THEN Deref(s._vMes)[i]
                              ELSE ResizeVec(s._rec, s._nt)[i]],
                  !._unfolded = TRUE],
        <<"Unfold">>, TRUE)

\* RooUnfold::Unfold (the base class's dummy unfolding)
Unfold(s) == CopyInput(WithVMes(s))

\* The virtual call Unfold(): it either completes (the base class's Unfold, which
\* always does) or, in a derived algorithm, may return without setting _unfolded
UnfoldVirtual(s, ok) ==
  IF ok THEN Unfold(s) ELSE Frame(s, <<"Unfold">>, TRUE)

\* Variant of GetCov that returns without setting _haveCov (C4 does not hold of
\* it: every later request computes again)
GetCovUnflagged(s) == Frame(GetMeasuredCov(s), <<"GetCov">>, TRUE)

\* the body of RooUnfold::GetCov, with covmeas= GetMeasuredCov() in _covMes
CopyCov(s) ==
  Frame([s EXCEPT !._cov = [i \in 1..s._nt |-> [j \in 1..s._nt |->
                              IF i <= Min(s._nm, s._nt) /\ j <= Min(s._nm, s._nt)
                              THEN Deref(s._covMes)[i][j]
                              ELSE ResizeMat(s._cov, s._nt, s._nt)[i][j]]],
                  !._haveCov = TRUE],
        <<"GetCov">>, TRUE)

\* RooUnfold::GetCov
GetCov(s) == CopyCov(GetMeasuredCov(s))

\* RooUnfold::GetErrors after its call of GetCov (frame f)
Variances(f) ==
  IF ~f.self._haveCov THEN Frame(f.self, <<"GetErrors">> \o f.trace, TRUE)
  ELSE Frame([f.self EXCEPT !._variances = [i \in 1..f.self._nt |-> f.self._cov[i][i]],
                            !._haveErrors = TRUE],
             <<"GetErrors">> \o f.trace, TRUE)

\* RooUnfold::GetErrors
GetErrors(s) == Variances(IF ~s._haveCov THEN GetCov(s) ELSE Void(s))

(* Toy Monte Carlo *)

\* TDecompChol: entry (i,j) of the lower-triangular L with L * L^T = a
RECURSIVE CholSum(_, _, _, _), CholEntry(_, _, _)
CholSum(a, i, j, k) ==
  IF k = 0 THEN 0
  ELSE CholEntry(a, i, k) * CholEntry(a, j, k) + CholSum(a, i, j, k - 1)
CholEntry(a, i, j) ==
  IF j > i THEN 0
  ELSE IF j = i THEN Sqrt(a[i][i] - CholSum(a, i, i, i - 1))
  ELSE (a[i][j] - CholSum(a, i, j, j - 1)) \div CholEntry(a, j, j)
Cholesky(a) == [i \in 1..Len(a) |-> [j \in 1..Len(a) |-> CholEntry(a, i, j)]]

RECURSIVE Dot(_, _, _)
Dot(row, v, k) == IF k = 0 THEN 0 ELSE row[k] * v[k] + Dot(row, v, k - 1)
MatVec(m, v) == [i \in 1..Len(m) |-> Dot(m[i], v, Len(v))]

\* Variant of CopyData that leaves the verbosity and the toy count Setup gave
\* (C31 does not hold of it)
CopyDataDefaults(s, rhs) == Setup(s, Deref(rhs._res), ExtHist(MeasHist(rhs)))

\* RooUnfold copy constructor, reached through RooUnfold::Clone: Init(), then
\* CopyData takes the response, the measured histogram pointer, verbosity and
\* toy count of rhs
CopyData(s, rhs) ==
  LET s1 == Setup(s, Deref(rhs._res), ExtHist(MeasHist(rhs)))
  IN  [s1 EXCEPT !._verbose = rhs._verbose, !._NToys = rhs._NToys]
Clone(rhs) == CopyData(InitObj, rhs)

\* RooUnfold::Assign; same is this == &rhs
Assign(s, rhs, same) == IF same THEN s ELSE CopyData(Reset(s), rhs)

\* TRandom::Poisson(mean) with the generator's outcome n
Poisson(mean, n) == IF mean[1] <= 0 THEN 0 ELSE n

\* the per-bin smearing of RooUnfold::RunToy without a measured covariance;
\* rnd[i] is the generator's outcome for bin i: the Poisson count, or the
\* accepted (first non-negative) Gaussian sample in units of the bin's error
ToyBin(old_meas, e, poisson, r) ==
  IF e <= 0 THEN old_meas
  ELSE IF poisson
       THEN LET sig == Frac(old_meas, e)
            IN  Poisson(Frac(sig[1] * sig[1], sig[2] * sig[2]), r)
       ELSE old_meas + r * e

\* the creation of _covL in RunToy
WithCovL(s) ==
  IF IsNull(s._covL) THEN [s EXCEPT !._covL = New(Cholesky(Deref(s._covMes)))] ELSE s

\* the branch of RunToy with a measured covariance, _covL and _vMes created:
\* rnd is the vector of unit Gaussian samples
ToyFromCov(s, rnd) ==
  [parent |-> s,
   toy |-> SetMeasuredVecCov(
             Clone(s),
             [i \in 1..s._nm |-> MatVec(Deref(s._covL), rnd)[i] + Deref(s._vMes)[i]],
             Deref(s._covMes))]

\* the branch of RunToy without a measured covariance, _vMes and _eMes created
ToyFromErr(s, poisson, rnd) ==
  [parent |-> s,
   toy |-> SetMeasuredVec(
             Clone(s),
             [i \in 1..s._nm |->
                ToyBin(Deref(s._vMes)[i], Deref(s._eMes)[i], poisson, rnd[i])],
             Deref(s._eMes))]

\* The toy is a RooUnfold (Clone creates the base class), whose Unfold completes.
\* RooUnfold::RunToy: the parent after the call (its mutable members _covL, _vMes
\* and _eMes may be created) and the toy it returns
RunToy(s, poisson, rnd) ==
  IF s._haveCovMes
  THEN ToyFromCov(WithVMes(WithCovL(s)), rnd)
  ELSE ToyFromErr(WithEMes(WithVMes(s)), poisson, rnd)

\* Vreco after its call of Unfold(): _fail is set if _unfolded is not
NoteFail(f) ==
  IF f.self._unfolded THEN f ELSE [f EXCEPT !.self._fail = TRUE]

\* RooUnfold::Vreco (RooUnfold.h): unfold on first use, give _rec
Vreco(s, ok) ==
  IF s._unfolded THEN Void(s)
  ELSE NoteFail(IF ~s._fail THEN UnfoldVirtual(s, ok) ELSE Void(s))

\* Variant of Accumulate that counts the toys before this one twice in xisum
\* (C12 does not hold of it)
AccumulateWeighted(acc, parent, fv) ==
  [self   |-> parent,
   xisum  |-> [i \in 1..parent._nt |-> 2 * acc.xisum[i] + fv.self._rec[i]],
   xijsum |-> [i \in 1..parent._nt |-> [j \in 1..parent._nt |->
                 acc.xijsum[i][j] + fv.self._rec[i] * fv.self._rec[j]]],
   toys   |-> Append(acc.toys, [x |-> fv.self._rec, unfolds |-> Len(fv.trace),
                                deleted |-> TRUE])]

\* the sums of one pass of the toy loop: fv is the frame of unfold->Vreco(),
\* parent the instance after RunToy(); the toy is deleted at the end of the pass
Accumulate(acc, parent, fv) ==
  [self   |-> parent,
   xisum  |-> [i \in 1..parent._nt |-> acc.xisum[i] + fv.self._rec[i]],
   xijsum |-> [i \in 1..parent._nt |-> [j \in 1..parent._nt |->
                 acc.xijsum[i][j] + fv.self._rec[i] * fv.self._rec[j]]],
   toys   |-> Append(acc.toys, [x |-> fv.self._rec, unfolds |-> Len(fv.trace),
                                deleted |-> TRUE])]

\* one pass of the toy loop on the result rt of RunToy()
AddToy(acc, rt) == Accumulate(acc, rt.parent, Vreco(rt.toy, TRUE))

\* the toy loop of RooUnfold::GetErrMat from toy k on: acc holds the instance,
\* xisum, xijsum and the toys run so far
RECURSIVE ToyLoop(_, _, _, _)
ToyLoop(acc, poisson, rnds, k) ==
  IF k >= acc.self._NToys THEN acc
  ELSE ToyLoop(AddToy(acc, RunToy(acc.self, poisson, rnds[k + 1])),
               poisson, rnds, k + 1)

\* Variant of the toy covariance entry normalised by N instead of N-1 (C10 does
\* not hold of it)
ErrMatEntryBiased(xij, xi, xj, ntoys) ==
  RatDivInt(RatSub(<<xij, 1>>, Frac(xi * xj, ntoys)), ntoys)

\* entry (i,j) of the toy covariance from the accumulated sums
ErrMatEntry(xij, xi, xj, ntoys) ==
  RatDivInt(RatSub(<<xij, 1>>, Frac(xi * xj, ntoys)), ntoys - 1)

\* the end of RooUnfold::GetErrMat: _err_mat from the sums acc of the toy loop
SetErrMat(acc) ==
  [self  |-> [acc.self EXCEPT
                !._err_mat = [i \in 1..acc.self._nt |-> [j \in 1..acc.self._nt |->
                                ErrMatEntry(acc.xijsum[i][j], acc.xisum[i],
                                            acc.xisum[j], acc.self._NToys)]],
                !._have_err_mat = TRUE],
   trace |-> <<"GetErrMat", "ToyLoop">>,
   ret   |-> TRUE,
   toys  |-> acc.toys,
   cerr  |-> <<>>]

\* RooUnfold::GetErrMat
GetErrMat(s, poisson, rnds) ==
  IF s._NToys <= 1 THEN Frame(s, <<"GetErrMat">>, TRUE)
  ELSE SetErrMat(ToyLoop([self |-> s, xisum |-> ZeroVec(s._nt),
                          xijsum |-> ZeroMat(s._nt, s._nt), toys |-> <<>>],
                         poisson, rnds, 0))

----------------------------------------------------------------------------
(* The result request *)

\* ok= ... in the error-treatment switch, after the computation (frame f)
SwitchOk(f, withError) ==
  [f EXCEPT !.ret = CASE withError = "kErrors" -> f.self._haveErrors
                      [] withError = "kCovariance" -> f.self._haveCov
                      [] withError = "kCovToy" -> f.self._have_err_mat
                      [] OTHER -> TRUE]

\* the error-treatment switch of RooUnfold::UnfoldWithErrors
ErrorStep(s, withError, poisson, rnds) ==
  SwitchOk(CASE withError = "kErrors" ->
                  IF ~s._haveErrors THEN GetErrors(s) ELSE Void(s)
             [] withError = "kCovariance" ->
                  IF ~s._haveCov THEN GetCov(s) ELSE Void(s)
             [] withError = "kCovToy" ->
                  IF ~s._have_err_mat THEN GetErrMat(s, poisson, rnds) ELSE Void(s)
             [] OTHER -> Void(s),
           withError)

\* what UnfoldWithErrors does with the switch's result
SetFail(f) ==
  IF ~f.ret THEN [f EXCEPT !.self._fail = TRUE] ELSE f

\* the first test of UnfoldWithErrors: an instance that is not unfolded and has
\* failed is refused at once
FailFast(s) == ~s._unfolded /\ s._fail

\* Variant of UnfoldFailed that returns failure without recording it (C1 does not
\* hold of it)
UnfoldFailedUnrecorded(f) == Frame(f.self, f.trace, FALSE)

\* Unfold() returned without setting _unfolded
UnfoldFailed(f) == [f EXCEPT !.self._fail = TRUE, !.ret = FALSE]

\* the frame g of a call made after the hooks of trace t
After(t, g) == [g EXCEPT !.trace = t \o g.trace]

\* the frame g of a call made after the part of the method that gave frame f
AfterFrame(f, g) == [After(f.trace, g) EXCEPT !.cerr = f.cerr \o g.cerr]

\* UnfoldWithErrors from the test of _unfolded that follows Unfold() (frame f) on
AfterUnfold(f, withError, poisson, rnds) ==
  IF ~f.self._unfolded THEN UnfoldFailed(f)
  ELSE AfterFrame(f, SetFail(ErrorStep(f.self, withError, poisson, rnds)))

\* the comparison of _meas with the response's measured histogram (the model's
\* histograms are 1-D: dimension, y and z bin counts are equal)
BinsDiffer(s) == MeasHist(s).nx # ResHmeasured(Deref(s._res)).nx

\* Variant of Warned that gives up on a mismatch, before Unfold() is called
\* (C21 does not hold of it)
WarnedFatal(s, f) ==
  IF BinsDiffer(s) THEN [Void(s) EXCEPT !.cerr = <<"Warning">>] ELSE f

\* the mismatch warning, followed by the call of Unfold() with frame f
Warned(s, f) ==
  IF BinsDiffer(s) THEN [f EXCEPT !.cerr = <<"Warning">> \o @] ELSE f

\* RooUnfold::UnfoldWithErrors
UnfoldWithErrors(s, withError, ok, poisson, rnds) ==
  IF FailFast(s) THEN Frame(s, <<>>, FALSE)
  ELSE AfterUnfold(IF ~s._unfolded THEN Warned(s, UnfoldVirtual(s, ok)) ELSE Void(s),
                   withError, poisson, rnds)

(* The state machine *)

Configured(s) == ~IsNull(s._res) /\ s._meas.kind # "null"

\* other instances (the rhs of Assign): response, measured histogram, verbosity
\* and toy count
Others ==
  {[InitObj EXCEPT !._res = New(r), !._meas = ExtHist(HistB(2)), !._verbose = 2,
                   !._NToys = 1] : r \in Responses}

\* no helper is studied
NoAux == [op |-> "none"]

NoCalls == [Unfold |-> 0, GetCov |-> 0, GetErrors |-> 0, ToyLoop |-> 0]

RECURSIVE Count(_, _)
Count(trace, name) ==
  IF trace = <<>> THEN 0
  ELSE (IF Head(trace) = name THEN 1 ELSE 0) + Count(Tail(trace), name)

Counted(c, trace) == [h \in DOMAIN c |-> c[h] + Count(trace, h)]

Called(op, arg, f) ==
  [op |-> op, arg |-> arg, ret |-> f.ret, trace |-> f.trace, toys |-> f.toys,
   cerr |-> f.cerr]

\* the cached vectors and matrices have the length the bin count asks for: a
\* call that would index one of them out of range (a ROOT range error, after
\* SetResponse changed the bin counts under them) is not explored
RangeOK(s) ==
  /\ Configured(s)
  /\ s._nm = GetNbinsMeasured(Deref(s._res)) + 2 * s._overflow
  /\ (~IsNull(s._vMes)) => (Len(Deref(s._vMes)) = s._nm)
  /\ (~IsNull(s._eMes)) => (Len(Deref(s._eMes)) = s._nm)
  /\ (~IsNull(s._covMes)) => (Len(Deref(s._covMes)) = s._nm)
  /\ s._haveCov => (Len(s._cov) = s._nt)

\* outcomes of one toy's random numbers: the generator gives 0 for every bin, or
\* 1 for the last bin
ToyRnds(s) == {[i \in 1..s._nm |-> IF i = s._nm THEN d ELSE 0] : d \in {0, 1}}

\* a constructed instance (Init(), Setup(res, meas)) whose toy count is the
\* default, or has been set to the largest count the model runs
Init ==
  /\ \E res \in Responses, h \in Hists, n \in {DefaultNToys, MaxToys} :
       this = [Setup(InitObj, res, ExtHist(h)) EXCEPT !._NToys = n]
  /\ UsePoissonToys = TRUE
  /\ calls = NoCalls
  /\ last = [op |-> "RooUnfold", arg |-> "", ret |-> TRUE, trace |-> <<>>, toys |-> <<>>,
            cerr |-> <<>>]
  /\ nset = 0
  /\ aux = NoAux

DoSetup(res, h) ==
  /\ nset < MaxSets
  /\ nset' = nset + 1
  /\ this' = Setup(this, res, ExtHist(h))
  /\ calls' = NoCalls
  /\ last' = Called("Setup", "", Void(this'))
  /\ UNCHANGED <<UsePoissonToys, aux>>

DoReset ==
  /\ nset < MaxSets
  /\ nset' = nset + 1
  /\ this' = Reset(this)
  /\ calls' = NoCalls
  /\ last' = Called("Reset", "", Void(this'))
  /\ UNCHANGED <<UsePoissonToys, aux>>

\* RooUnfold::Assign from another instance rhs
DoAssign(rhs) ==
  /\ nset < MaxSets
  /\ nset' = nset + 1
  /\ this' = Assign(this, rhs, FALSE)
  /\ calls' = NoCalls
  /\ last' = Called("Assign", "", Void(this'))
  /\ UNCHANGED <<UsePoissonToys, aux>>

\* RooUnfold::Assign of the instance to itself: it returns before Reset()
DoAssignSelf ==
  /\ nset < MaxSets
  /\ nset' = nset + 1
  /\ this' = Assign(this, this, TRUE)
  /\ last' = Called("Assign", "self", Void(this'))
  /\ UNCHANGED <<UsePoissonToys, calls, aux>>

DoSetResponse(res) ==
  /\ nset < MaxSets
  /\ nset' = nset + 1
  /\ this' = SetResponse(this, res)
  /\ last' = Called("SetResponse", "", Void(this'))
  /\ UNCHANGED <<UsePoissonToys, calls, aux>>

DoSetMeasured(h) ==
  /\ nset < MaxSets
  /\ nset' = nset + 1
  /\ this' = SetMeasuredExt(this, ExtHist(h))
  /\ last' = Called("SetMeasured", "", Void(this'))
  /\ UNCHANGED <<UsePoissonToys, calls, aux>>

DoSetMeasuredVec(meas, err) ==
  /\ nset < MaxSets
  /\ nset' = nset + 1
  /\ ~IsNull(this._res)
  /\ this' = SetMeasuredVec(this, meas, err)
  /\ last' = Called("SetMeasured", "", Void(this'))
  /\ UNCHANGED <<UsePoissonToys, calls, aux>>

DoSetMeasuredVecCov(meas, cov) ==
  /\ nset < MaxSets
  /\ nset' = nset + 1
  /\ ~IsNull(this._res)
  /\ this' = SetMeasuredVecCov(this, meas, cov)
  /\ last' = Called("SetMeasured", "", Void(this'))
  /\ UNCHANGED <<UsePoissonToys, calls, aux>>

DoSetMeasuredCov(cov) ==
  /\ nset < MaxSets
  /\ nset' = nset + 1
  /\ ~IsNull(this._res)
  /\ this' = SetMeasuredCov(this, cov)
  /\ last' = Called("SetMeasuredCov", "", Void(this'))
  /\ UNCHANGED <<UsePoissonToys, calls, aux>>

\* RooUnfold::SetNToys (RooUnfold.h)
DoSetNToys(ntoys) ==
  /\ nset < MaxSets
  /\ nset' = nset + 1
  /\ this' = [this EXCEPT !._NToys = ntoys]
  /\ last' = Called("SetNToys", "", Void(this'))
  /\ UNCHANGED <<UsePoissonToys, calls, aux>>

DoSetUsePoissonToys ==
  /\ nset < MaxSets
  /\ nset' = nset + 1
  /\ UsePoissonToys' = ~UsePoissonToys
  /\ last' = Called("UsePoissonToys", "", Void(this))
  /\ UNCHANGED <<this, calls, aux>>

\* the state after a call that gave the frame f
Returned(op, arg, f) ==
  /\ this' = f.self
  /\ calls' = Counted(calls, f.trace)
  /\ last' = Called(op, arg, f)

\* toy counts above MaxToys are not explored
DoUnfoldWithErrors(withError, ok, rnds) ==
  /\ RangeOK(this)
  /\ withError = "kCovToy" => this._NToys <= MaxToys
  /\ Returned("UnfoldWithErrors", withError,
              UnfoldWithErrors(this, withError, ok, UsePoissonToys, rnds))
  /\ UNCHANGED <<UsePoissonToys, nset, aux>>

\* the random numbers a request consumes: none unless it runs the toy loop
RequestRnds(s, withError) ==
  IF withError = "kCovToy" /\ ~s._have_err_mat /\ s._NToys > 1 /\ s._NToys <= MaxToys
  THEN [1..s._NToys -> ToyRnds(s)]
  ELSE {<<>>}
\* the outcomes of the algorithm's Unfold(), when the request calls it
UnfoldOutcomes(s) ==
  IF ~s._unfolded /\ ~s._fail THEN BOOLEAN ELSE {TRUE}

Next ==
  \/ \E res \in Responses, h \in Hists : DoSetup(res, h)
  \/ DoReset
  \/ \E rhs \in Others : DoAssign(rhs)
  \/ DoAssignSelf
  \/ \E res \in Responses : DoSetResponse(res)
  \/ \E h \in Hists : DoSetMeasured(h)
  \/ \E meas \in VecInputs(this._nm), err \in ErrInputs(this._nm) :
       DoSetMeasuredVec(meas, err)
  \/ \E meas \in VecInputs(this._nm), cov \in CovInputs(this._nm) :
       DoSetMeasuredVecCov(meas, cov)
  \/ \E cov \in CovInputs(this._nm) : DoSetMeasuredCov(cov)
  \/ \E n \in ToyCounts : DoSetNToys(n)
  \/ DoSetUsePoissonToys
  \/ \E w \in ErrorTreatments, ok \in UnfoldOutcomes(this) :
       \E rnds \in RequestRnds(this, w) : DoUnfoldWithErrors(w, ok, rnds)

Spec == Init /\ [][Next]_vars

----------------------------------------------------------------------------
(* Properties of the result request and its caches *)

\* C1: when Unfold() returns without setting _unfolded, UnfoldWithErrors sets
\* _fail and returns false; from then on, until Reset, Setup or Assign, the
\* instance stays failed and not unfolded, and every request (any error
\* treatment) returns false without calling Unfold() again.
C1_FailFastUntilReset ==
  [][ /\ (last'.op = "UnfoldWithErrors" /\ Count(last'.trace, "Unfold") = 1
            /\ ~this'._unfolded)
         => (this'._fail /\ ~last'.ret)
      /\ (this._fail /\ ~this._unfolded /\ last'.op \notin {"Reset", "Setup", "Assign"})
         => /\ this'._fail /\ ~this'._unfolded
            /\ last'.op = "UnfoldWithErrors" =>
                 (~last'.ret /\ Count(last'.trace, "Unfold") = 0 /\ this' = this)
    ]_vars

\* a request made of a failed instance, refused without any hook being run
C1_Witness ==
  /\ last.op = "UnfoldWithErrors"
  /\ this._fail /\ ~this._unfolded
  /\ last.trace = <<>> /\ ~last.ret
  /\ calls.Unfold = 1

\* C2: whenever _fail is set, whatever set it, a result request returns false
\* for every error treatment.
C2_FailRefusesEveryRequest ==
  [][(this._fail /\ last'.op = "UnfoldWithErrors") => ~last'.ret]_vars

\* a request granted by an instance whose _fail is set
C2_Witness ==
  /\ last.op = "UnfoldWithErrors"
  /\ this._fail /\ this._unfolded
  /\ last.ret

\* C3: a granted request leaves the caches valid for the current response,
\* measured distribution and measured covariance: _rec is what Unfold() gives
\* for the current input and, when _haveCov is set, _cov is what GetCov() gives.
C3_CachesMatchInput ==
  (last.op = "UnfoldWithErrors" /\ last.ret /\ RangeOK(this)) =>
    /\ this._rec = Unfold(this).self._rec
    /\ this._haveCov =>
         this._cov = GetCov([this EXCEPT !._covMes =
                               IF this._haveCovMes THEN this._covMes ELSE <<>>]).self._cov

\* a granted request whose _rec is not the unfolding of the current measured
\* distribution
C3_Witness ==
  /\ last.op = "UnfoldWithErrors" /\ last.ret
  /\ RangeOK(this)
  /\ this._unfolded
  /\ this._rec # Unfold(this).self._rec

\* C4: between two resets Unfold(), GetCov(), GetErrors() and the toy loop are
\* each executed at most once, and a request that repeats the error treatment of
\* the request before it computes nothing, changes nothing and returns the same.
C4_ComputedOnce ==
  [][ /\ \A h \in DOMAIN calls' : calls'[h] <= 1
      /\ (last.op = "UnfoldWithErrors" /\ last'.op = "UnfoldWithErrors"
            /\ last'.arg = last.arg)
         => /\ this' = this
            /\ last'.ret = last.ret
            /\ Counted(NoCalls, last'.trace) = NoCalls
    ]_vars

\* a toy-covariance request granted from the cache: the toy loop has run once,
\* and not in this request
C4_Witness ==
  /\ last.op = "UnfoldWithErrors" /\ last.arg = "kCovToy"
  /\ last.ret /\ last.trace = <<>>
  /\ calls.ToyLoop = 1 /\ calls.Unfold = 1

\* C5: each of _unfolded, _haveErrors, _haveCov and _have_err_mat, once true,
\* stays true across every operation other than Reset, Setup and Assign.
C5_FlagsStaySet ==
  [][ last'.op \notin {"Reset", "Setup", "Assign"} =>
        /\ this._unfolded => this'._unfolded
        /\ this._haveErrors => this'._haveErrors
        /\ this._haveCov => this'._haveCov
        /\ this._have_err_mat => this'._have_err_mat
    ]_vars

\* all four flags set, just after the measured covariance was replaced
C5_Witness ==
  /\ last.op = "SetMeasuredCov"
  /\ this._unfolded /\ this._haveErrors /\ this._haveCov /\ this._have_err_mat

\* C6: just after Reset or Setup the six flags are false, and a request made
\* next starts by running Unfold().
C6_ResetClearsFlags ==
  [][ /\ last'.op \in {"Reset", "Setup"} =>
           /\ ~this'._unfolded /\ ~this'._haveCov /\ ~this'._haveCovMes
           /\ ~this'._haveErrors /\ ~this'._have_err_mat /\ ~this'._fail
      /\ (last.op \in {"Reset", "Setup"} /\ last'.op = "UnfoldWithErrors") =>
           (last'.trace # <<>> /\ Head(last'.trace) = "Unfold")
    ]_vars

\* an instance just set up again after it had unfolded (Init() leaves the old
\* _rec in place), with every flag false
C6_Witness ==
  /\ last.op = "Setup"
  /\ Len(this._rec) > 0
  /\ ~this._unfolded /\ ~this._haveCov /\ ~this._haveCovMes
  /\ ~this._haveErrors /\ ~this._have_err_mat /\ ~this._fail

\* C7: once a response is set, _nm and _nt keep their values across every
\* operation other than Reset, Setup and Assign.
C7_BinCountsFixed ==
  [][ (~IsNull(this._res) /\ last'.op \notin {"Reset", "Setup", "Assign"}) =>
        (this'._nm = this._nm /\ this'._nt = this._nt)
    ]_vars

\* an unfolded instance whose _nt is no longer the length of its result
C7_Witness ==
  /\ last.op = "SetResponse"
  /\ this._unfolded
  /\ Len(this._rec) # this._nt

\* C8: a kCovToy request made with a toy count <= 1 runs no toy, leaves
\* _have_err_mat false and returns false.
C8_NoToysNoMatrix ==
  [][ (last'.op = "UnfoldWithErrors" /\ last'.arg = "kCovToy" /\ this._NToys <= 1) =>
        /\ last'.toys = <<>> /\ Count(last'.trace, "ToyLoop") = 0
        /\ ~this'._have_err_mat
        /\ ~last'.ret
    ]_vars

\* a kCovToy request granted with a toy count <= 1
C8_Witness ==
  /\ last.op = "UnfoldWithErrors" /\ last.arg = "kCovToy"
  /\ this._NToys <= 1
  /\ last.ret /\ this._have_err_mat

\* C9: a kCovToy request that fails because the toy count is <= 1 (the instance
\* is unfolded and has no toy covariance) does not set _fail.
C9_RequestOnlyFailure ==
  [][ (last'.op = "UnfoldWithErrors" /\ last'.arg = "kCovToy" /\ this._NToys <= 1
         /\ this'._unfolded /\ ~this._have_err_mat /\ ~this._fail)
      => ~this'._fail
    ]_vars

\* an unfolded instance with _fail set by a kCovToy request with a toy count <= 1
C9_Witness ==
  /\ last.op = "UnfoldWithErrors" /\ last.arg = "kCovToy"
  /\ this._NToys <= 1
  /\ ~last.ret /\ this._unfolded /\ ~this._have_err_mat /\ this._fail

\* sums over the toys a request ran
RECURSIVE SumX(_, _, _), SumXX(_, _, _, _)
SumX(toys, i, k) ==
  IF k = 0 THEN 0 ELSE toys[k].x[i] + SumX(toys, i, k - 1)
SumXX(toys, i, j, k) ==
  IF k = 0 THEN 0 ELSE toys[k].x[i] * toys[k].x[j] + SumXX(toys, i, j, k - 1)

\* C10: a kCovToy request that calls GetErrMat with toy count N > 1 runs exactly
\* N toys, each a clone unfolded once and deleted, sets entry (i,j) of _err_mat
\* to (sum x_i x_j - (sum x_i)(sum x_j)/N)/(N-1) over the N toy results, that
\* is (N sum x_i x_j - (sum x_i)(sum x_j)) / (N (N-1)), and sets _have_err_mat.
C10_ToyCovariance ==
  (last.op = "UnfoldWithErrors" /\ Count(last.trace, "GetErrMat") = 1
     /\ this._NToys > 1) =>
    LET N == this._NToys
        T == last.toys
    IN  /\ Len(T) = N
        /\ Count(last.trace, "ToyLoop") = 1
        /\ \A k \in 1..N : T[k].unfolds = 1 /\ T[k].deleted /\ Len(T[k].x) = this._nt
        /\ this._have_err_mat /\ last.ret
        /\ \A i, j \in 1..this._nt :
             this._err_mat[i][j] =
               Frac(N * SumXX(T, i, j, N) - SumX(T, i, N) * SumX(T, j, N), N * (N - 1))

\* a toy covariance computed from toys whose results differ
C10_Witness ==
  /\ last.op = "UnfoldWithErrors" /\ Count(last.trace, "GetErrMat") = 1
  /\ this._NToys > 1 /\ Len(last.toys) = this._NToys
  /\ \E k \in 1..Len(last.toys) : last.toys[k].x # last.toys[1].x
  /\ \E i \in 1..this._nt : this._err_mat[i][i] # <<0, 1>>

----------------------------------------------------------------------------
(* Properties of the toy Monte Carlo *)

\* C11: the toy runs of a request write no field of the parent: a kCovToy
\* request made of an unfolded instance changes _err_mat and _have_err_mat and
\* nothing else.
C11_ToysLeaveParent ==
  [][ (last'.op = "UnfoldWithErrors" /\ Count(last'.trace, "ToyLoop") = 1
         /\ this._unfolded)
      => this' = [this EXCEPT !._err_mat = this'._err_mat,
                              !._have_err_mat = this'._have_err_mat]
    ]_vars

\* an instance whose _covL was created by the toy runs of its last request
C11_Witness ==
  /\ last.op = "UnfoldWithErrors" /\ Count(last.trace, "ToyLoop") = 1
  /\ ~IsNull(this._covL)

\* the permutations of 1..n
Perms(n) == {p \in [1..n -> 1..n] : \A i, j \in 1..n : p[i] = p[j] => i = j}

\* the sums of the toy loop over the toy results xs, taken in the order p
RECURSIVE Reduce(_, _, _, _)
Reduce(acc, xs, p, k) ==
  IF k > Len(xs) THEN acc
  ELSE Reduce(Accumulate(acc, acc.self, [self |-> [_rec |-> xs[p[k]].x], trace |-> <<>>]),
              xs, p, k + 1)

\* C12: for the toy results of a request, the toy covariance GetErrMat sets is
\* the one the toy loop's sums give for every order of accumulation.
C12_OrderIndependent ==
  (last.op = "UnfoldWithErrors" /\ Count(last.trace, "ToyLoop") = 1) =>
    \A p \in Perms(Len(last.toys)) :
      SetErrMat(Reduce([self |-> this, xisum |-> ZeroVec(this._nt),
                        xijsum |-> ZeroMat(this._nt, this._nt), toys |-> <<>>],
                       last.toys, p, 1)).self._err_mat = this._err_mat

\* a toy covariance from toys whose first and last results differ
C12_Witness ==
  /\ last.op = "UnfoldWithErrors" /\ Count(last.trace, "ToyLoop") = 1
  /\ Len(last.toys) = this._NToys
  /\ last.toys[1].x # last.toys[Len(last.toys)].x

(***************************************************************************)
(* RunToy's smearing of one bin (lines 765-779), one random draw per step   *)
(***************************************************************************)

MaxMeas == 2     \* measured bin values are -MaxMeas..MaxMeas
MaxErr == 2      \* bin errors are -1..MaxErr
MaxSigma == 1    \* gRandom->Gaus(0,e) returns g*e with g in -MaxSigma..MaxSigma
MaxCount == 4    \* gRandom->Poisson returns a count in 0..MaxCount

GausDraws == -MaxSigma..MaxSigma
PoissonDraws == 0..MaxCount

\* the instance is not involved while a helper is studied
Parked ==
  /\ this = InitObj
  /\ calls = NoCalls
  /\ last = [op |-> "RooUnfold", arg |-> "", ret |-> TRUE, trace |-> <<>>, toys |-> <<>>,
            cerr |-> <<>>]
  /\ nset = 0

RejectedBelowOne(newmeas) == newmeas < -1

\* while(newmeas[i] < 0.)
Rejected(newmeas) == newmeas < 0

\* the loop body for bin i up to the first Gaus or Poisson draw r
Smear(a, poisson, r) ==
  [a EXCEPT !.newmeas = ToyBin(a.old_meas, a.e, poisson, r),
            !.r = IF a.e <= 0 THEN a.r ELSE r,
            !.pc = IF a.e > 0 /\ ~poisson /\ Rejected(ToyBin(a.old_meas, a.e, poisson, r))
                   THEN "while" ELSE "done"]

\* one pass of the while loop: another Gaus draw r
Resample(a, r) ==
  [a EXCEPT !.newmeas = ToyBin(a.old_meas, a.e, FALSE, r),
            !.r = r,
            !.resampled = TRUE,
            !.pc = IF Rejected(ToyBin(a.old_meas, a.e, FALSE, r)) THEN "while" ELSE "done"]

InitToy ==
  /\ Parked
  /\ UsePoissonToys \in BOOLEAN
  /\ \E v \in -MaxMeas..MaxMeas, e \in -1..MaxErr :
       aux = [op |-> "RunToy", pc |-> "for", old_meas |-> v, e |-> e,
              newmeas |-> v, r |-> 0, resampled |-> FALSE]

DoSmear(r) ==
  /\ aux.pc = "for"
  /\ r \in (IF UsePoissonToys THEN PoissonDraws ELSE GausDraws)
  /\ aux' = Smear(aux, UsePoissonToys, r)
  /\ UNCHANGED <<this, UsePoissonToys, calls, last, nset>>

DoResample(r) ==
  /\ aux.pc = "while"
  /\ aux' = Resample(aux, r)
  /\ UNCHANGED <<this, UsePoissonToys, calls, last, nset>>

NextToy ==
  \/ \E r \in PoissonDraws \cup GausDraws : DoSmear(r)
  \/ \E r \in GausDraws : DoResample(r)

\* the bin's first pass is taken, and a generator that is asked again and
\* again returns each of its values again and again
SpecToy ==
  /\ InitToy
  /\ [][NextToy]_vars
  /\ WF_vars(\E r \in PoissonDraws \cup GausDraws : DoSmear(r))
  /\ \A r \in GausDraws : SF_vars(DoResample(r))

\* C13: in Poisson mode a draw equal to its mean (v/e)^2 gives the bin the
\* value v again, for every v and every e > 0
C13_MeanDrawReproduces ==
  (aux.pc = "done" /\ UsePoissonToys /\ aux.e > 0
     /\ aux.r * aux.e * aux.e = aux.old_meas * aux.old_meas)
    => aux.newmeas = aux.old_meas

C13_Witness ==
  /\ aux.pc = "done" /\ UsePoissonToys /\ aux.e > 0
  /\ aux.r * aux.e * aux.e = aux.old_meas * aux.old_meas
  /\ aux.e * aux.e # aux.old_meas

\* C14: in Gaussian mode a bin with a positive error ends with a value >= 0
\* and a bin with an error <= 0 keeps its measured value
C14_GaussianNonNegative ==
  (aux.pc = "done" /\ ~UsePoissonToys)
    => IF aux.e > 0 THEN aux.newmeas >= 0 ELSE aux.newmeas = aux.old_meas

C14_Witness ==
  aux.pc = "done" /\ ~UsePoissonToys /\ aux.e > 0 /\ aux.resampled /\ aux.old_meas < 0

\* C15: the smearing of a bin ends, whatever its measured value
C15_ResamplingEnds == <>(aux.pc = "done")

C15_Witness ==
  aux.pc = "while" /\ aux.resampled /\ aux.old_meas + MaxSigma * aux.e < 0

(***************************************************************************)
(* CutZeros (lines 792-822)                                                *)
(***************************************************************************)

MaxDim == 3      \* matrices handed to CutZeros are n x n with n in 0..MaxDim

CovEntries == {-1, 0, 1}

\* the symmetric n x n matrices over CovEntries; an entry is a rational
SymMats(n) ==
  {[i \in 1..n |-> [j \in 1..n |-> Rat(IF i <= j THEN f[<<i, j>>] ELSE f[<<j, i>>])]] :
     f \in [{ij \in (1..n) \X (1..n) : ij[1] <= ij[2]} -> CovEntries]}

RECURSIVE SumTo(_, _)
\* coltot after the inner loop has run over the first k entries of a row
SumTo(row, k) == IF k = 0 THEN Rat(0) ELSE RatAdd(SumTo(row, k - 1), row[k])

\* diags: the indices whose coltot is 0
Diags(ereco) == {i \in 1..Len(ereco) : SumTo(ereco[i], Len(ereco)) = Rat(0)}

\* the indices the second loop copies, in increasing order
Kept(ereco) == SelectSeq([i \in 1..Len(ereco) |-> i], LAMBDA i : i \notin Diags(ereco))

\* v when the second loop is at index i
Skipped(ereco, i) == Cardinality({d \in Diags(ereco) : d < i})

CutZeros(ereco) ==
  [r \in 1..(Len(ereco) - Cardinality(Diags(ereco))) |->
     [j \in 1..(Len(ereco) - Cardinality(Diags(ereco))) |->
        ereco[Kept(ereco)[r]][j + Skipped(ereco, Kept(ereco)[r])]]]

InitCut ==
  /\ Parked
  /\ UsePoissonToys = TRUE
  /\ \E n \in 0..MaxDim : \E m \in SymMats(n) :
       aux = [op |-> "CutZeros", pc |-> "call", ereco |-> m, ereco_cut |-> <<>>]

DoCutZeros ==
  /\ aux.pc = "call"
  /\ aux' = [aux EXCEPT !.pc = "return", !.ereco_cut = CutZeros(aux.ereco)]
  /\ UNCHANGED <<this, UsePoissonToys, calls, last, nset>>

NextCut == DoCutZeros

SpecCut == InitCut /\ [][NextCut]_vars

\* C16: with keep the ordered indices whose row sum is not zero, the
\* result's entry (r,c) is the input's entry (keep[r], keep[c])
C16_KeepsRowsAndColumns ==
  aux.pc = "return" =>
    aux.ereco_cut = [r \in 1..Len(Kept(aux.ereco)) |->
                       [c \in 1..Len(Kept(aux.ereco)) |->
                          aux.ereco[Kept(aux.ereco)[r]][Kept(aux.ereco)[c]]]]

C16_Witness ==
  /\ aux.pc = "return"
  /\ Len(aux.ereco) = 3
  /\ Diags(aux.ereco) = {2}
  /\ aux.ereco[1][3] # Rat(0)

\* the indices whose row and column are entirely zero
ZeroLines(m) ==
  {i \in 1..Len(m) : \A j \in 1..Len(m) : m[i][j] = Rat(0) /\ m[j][i] = Rat(0)}

\* C17: an n x n input with exactly k entirely-zero rows and columns gives
\* an (n-k) x (n-k) result
C17_DimensionDropsByZeroLines ==
  aux.pc = "return" =>
    /\ Len(aux.ereco_cut) = Len(aux.ereco) - Cardinality(ZeroLines(aux.ereco))
    /\ \A r \in 1..Len(aux.ereco_cut) :
         Len(aux.ereco_cut[r]) = Len(aux.ereco) - Cardinality(ZeroLines(aux.ereco))

C17_Witness ==
  /\ aux.pc = "return"
  /\ ZeroLines(aux.ereco) = {}
  /\ Diags(aux.ereco) # {}

(***************************************************************************)
(* Chi2, Ereco, ErecoV (lines 431-497, 824-894)                            *)
(***************************************************************************)

ZeroRatMat(n) == [i \in 1..n |-> [j \in 1..n |-> Rat(0)]]
DiagMat(v) == [i \in 1..Len(v) |-> [j \in 1..Len(v) |-> IF i = j THEN Rat(v[i]) ELSE Rat(0)]]
RatMat(m) == [i \in 1..Len(m) |-> [j \in 1..Len(m[i]) |-> Rat(m[i][j])]]

\* sqrt of a rational whose numerator and denominator are squares
RatSqrt(p) == Frac(Sqrt(p[1]), Sqrt(p[2]))
RatAbs(p) == <<Abs(p[1]), p[2]>>

\* RooUnfold::Ereco, given the frame f of its call of UnfoldWithErrors
Ereco(f, withError) ==
  IF ~f.ret THEN ZeroRatMat(f.self._nt)
  ELSE CASE withError = "kNoError" -> DiagMat(f.self._rec)
         [] withError = "kErrors" -> DiagMat(f.self._variances)
         [] withError = "kCovariance" -> RatMat(f.self._cov)
         [] withError = "kCovToy" -> f.self._err_mat

\* RooUnfold::ErecoV, given the frame f of its call of UnfoldWithErrors
ErecoV(f, withError) ==
  IF ~f.ret THEN [i \in 1..f.self._nt |-> Rat(0)]
  ELSE CASE withError = "kNoError" ->
              [i \in 1..f.self._nt |-> Rat(Sqrt(Abs(f.self._rec[i])))]
         [] withError = "kErrors" ->
              [i \in 1..f.self._nt |-> Rat(Sqrt(Abs(f.self._variances[i])))]
         [] withError = "kCovariance" ->
              [i \in 1..f.self._nt |-> Rat(Sqrt(Abs(f.self._cov[i][i])))]
         [] withError = "kCovToy" ->
              [i \in 1..f.self._nt |-> RatSqrt(RatAbs(f.self._err_mat[i][i]))]

\* hTrue->GetBinContent(it)!=0.0 || hTrue->GetBinError(it)>0.0
Measured(hTrue, it) == GetBinContent(hTrue, it) # 0 \/ GetBinError(hTrue, it) > 0

\* res(i) of the covariance path (i counts from 1); res starts as zeros
Residual(s, hTrue, i) ==
  IF Measured(hTrue, GetBin(hTrue, i - 1, s._overflow))
  THEN Rat(s._rec[i] - GetBinContent(hTrue, GetBin(hTrue, i - 1, s._overflow)))
  ELSE Rat(0)

\* the indices i with ereco(i,i) != 0.0, in increasing order
NonZeroDiag(ereco) ==
  SelectSeq([i \in 1..Len(ereco) |-> i], LAMBDA i : ereco[i][i] # Rat(0))

\* res_matrix_cut: n rows, filled from the bins with a non-zero diagonal entry
ResCut(s, hTrue, ereco, n) ==
  [v \in 1..n |-> IF v <= Len(NonZeroDiag(ereco))
                  THEN Residual(s, hTrue, NonZeroDiag(ereco)[v]) ELSE Rat(0)]

\* the determinant of a 2 x 2 matrix
Det2(a) == RatSub(RatMul(a[1][1], a[2][2]), RatMul(a[1][2], a[2][1]))

\* the solution x of a x = b for a 2 x 2 matrix a that is not singular
Solve2(a, b) ==
  <<RatDiv(RatSub(RatMul(b[1], a[2][2]), RatMul(a[1][2], b[2])), Det2(a)),
    RatDiv(RatSub(RatMul(a[1][1], b[2]), RatMul(a[2][1], b[1])), Det2(a))>>

\* TDecompSVD::MultiSolve for a matrix a that is not singular: 2 x 2, or diagonal
MultiSolve(a, b) ==
  IF Len(b) = 2 THEN Solve2(a, b) ELSE [v \in 1..Len(b) |-> RatDiv(b[v], a[v][v])]

RECURSIVE DotTo(_, _, _)
\* res_matrix_t*res_matrix_cut over the first k rows
DotTo(x, y, k) == IF k = 0 THEN Rat(0) ELSE RatAdd(DotTo(x, y, k - 1), RatMul(x[k], y[k]))

\* a return of Chi2 after the hooks t
ChiRet(f, t, v) == [f |-> [f EXCEPT !.trace = f.trace \o t], chi2 |-> v]

\* the covariance path from CutZeros on
Chi2Cut(f, hTrue, ereco, ereco_cut) ==
  IF Len(ereco_cut) <= 0 THEN ChiRet(f, <<"CutZeros">>, Rat(0))
  ELSE ChiRet(f, <<"CutZeros", "Determinant", "TDecompSVD">>,
              DotTo(ResCut(f.self, hTrue, ereco, Len(ereco_cut)),
                    MultiSolve(ereco_cut, ResCut(f.self, hTrue, ereco, Len(ereco_cut))),
                    Len(ereco_cut)))

\* Variant of Chi2Cov that decomposes the matrix before it looks at its size
\* (C18 does not hold of it)
Chi2CovUncut(f, hTrue, DoChi2) ==
  IF ~f.self._unfolded THEN ChiRet(f, <<>>, Rat(-1))
  ELSE ChiRet(f, <<"CutZeros", "Determinant", "TDecompSVD">>, Rat(0))

\* the covariance path after Ereco's request (frame f)
Chi2Cov(f, hTrue, DoChi2) ==
  IF ~f.self._unfolded THEN ChiRet(f, <<>>, Rat(-1))
  ELSE Chi2Cut(f, hTrue, Ereco(f, DoChi2), CutZeros(Ereco(f, DoChi2)))

\* ypull*ypull for bin i with error e, 0 for a bin the loop passes over
Pull2(s, hTrue, e, i) ==
  IF e[1] > 0 /\ Measured(hTrue, GetBin(hTrue, i - 1, s._overflow))
  THEN RatMul(RatDiv(Residual(s, hTrue, i), e), RatDiv(Residual(s, hTrue, i), e))
  ELSE Rat(0)

RECURSIVE PullSum(_, _, _, _)
\* chi2 after the first k bins
PullSum(s, hTrue, ereco, k) ==
  IF k = 0 THEN Rat(0)
  ELSE RatAdd(PullSum(s, hTrue, ereco, k - 1), Pull2(s, hTrue, ereco[k], k))

\* the pull of bin i with error e, taken whether or not the truth bin has a
\* reference
PullAny(s, hTrue, e, i) ==
  IF e[1] > 0
  THEN RatDiv(Rat(s._rec[i] - GetBinContent(hTrue, GetBin(hTrue, i - 1, s._overflow))), e)
  ELSE Rat(0)

\* Variant of Chi2Pull that counts every bin with a positive error, also those
\* without a truth reference (C19 does not hold of it)
Chi2PullAllBins(f, hTrue, DoChi2) ==
  IF ~f.self._unfolded THEN ChiRet(f, <<>>, Rat(-1))
  ELSE ChiRet(f, <<>>,
              DotTo([i \in 1..f.self._nt |-> PullAny(f.self, hTrue, ErecoV(f, DoChi2)[i], i)],
                    [i \in 1..f.self._nt |-> PullAny(f.self, hTrue, ErecoV(f, DoChi2)[i], i)],
                    f.self._nt))

\* the scalar path after ErecoV's request (frame f)
Chi2Pull(f, hTrue, DoChi2) ==
  IF ~f.self._unfolded THEN ChiRet(f, <<>>, Rat(-1))
  ELSE ChiRet(f, <<>>, PullSum(f.self, hTrue, ErecoV(f, DoChi2), f.self._nt))

\* RooUnfold::Chi2
Chi2(s, hTrue, DoChi2, ok, poisson, rnds) ==
  IF DoChi2 = "kCovariance" \/ DoChi2 = "kCovToy"
  THEN Chi2Cov(UnfoldWithErrors(s, DoChi2, ok, poisson, rnds), hTrue, DoChi2)
  ELSE Chi2Pull(UnfoldWithErrors(s, DoChi2, ok, poisson, rnds), hTrue, DoChi2)

\* a response with as many measured as truth bins
ChiResponses == {[nm |-> 2, nt |-> 2, overflow |-> FALSE]}

\* bin contents whose absolute value has a rational square root
ChiContents == {-1, 4}

\* measured histograms of two bins: contents from ChiContents, errors 0..MaxErr
ChiMeas ==
  {[nx |-> 2, c |-> <<0, c[1], c[2], 0>>, e |-> <<0, e[1], e[2], 0>>] :
     c \in ChiContents \X ChiContents, e \in (0..MaxErr) \X (0..MaxErr)}

\* truth bins: no reference (content 0, error 0), content 0 with an error,
\* a content without error
TruthBins == {<<0, 0>>, <<0, 1>>, <<1, 0>>}

ChiTruth ==
  {[nx |-> 2, c |-> <<0, b[1][1], b[2][1], 0>>, e |-> <<0, b[1][2], b[2][2], 0>>] :
     b \in TruthBins \X TruthBins}

InitChi ==
  /\ \E res \in ChiResponses, h \in ChiMeas :
       this = [Setup(InitObj, res, ExtHist(h)) EXCEPT !._NToys = MaxToys]
  /\ UsePoissonToys = TRUE
  /\ calls = NoCalls
  /\ last = [op |-> "RooUnfold", arg |-> "", ret |-> TRUE, trace |-> <<>>, toys |-> <<>>,
            cerr |-> <<>>]
  /\ nset = 0
  /\ \E t \in ChiTruth :
       aux = [op |-> "Chi2", hTrue |-> t, chi2 |-> [w \in ErrorTreatments |-> <<>>]]

\* the call's frame and result r
ChiReturned(DoChi2, r) ==
  /\ Returned("Chi2", DoChi2, r.f)
  /\ aux' = [aux EXCEPT !.chi2[DoChi2] = r.chi2]

\* Chi2(hTrue, DoChi2), once for each error treatment
CallChi2(DoChi2, ok, rnds) ==
  /\ aux.chi2[DoChi2] = <<>>
  /\ ChiReturned(DoChi2, Chi2(this, aux.hTrue, DoChi2, ok, UsePoissonToys, rnds))
  /\ UNCHANGED <<UsePoissonToys, nset>>

NextChi ==
  \E w \in ErrorTreatments, ok \in UnfoldOutcomes(this) :
    \E rnds \in RequestRnds(this, w) : CallChi2(w, ok, rnds)

SpecChi == InitChi /\ [][NextChi]_vars

\* the matrix the last call of Chi2 got from Ereco
LastEreco == Ereco([self |-> this, ret |-> last.ret], last.arg)

\* C18: when the covariance is all zeros, Chi2 with kCovariance or kCovToy
\* on an unfolded instance returns 0 and computes no determinant and no
\* singular-value decomposition
C18_ZeroCovarianceGivesZero ==
  (last.op = "Chi2" /\ last.arg \in {"kCovariance", "kCovToy"} /\ this._unfolded
     /\ LastEreco = ZeroRatMat(this._nt))
    => /\ aux.chi2[last.arg] = Rat(0)
       /\ Count(last.trace, "Determinant") = 0
       /\ Count(last.trace, "TDecompSVD") = 0

C18_Witness ==
  /\ last.op = "Chi2" /\ last.arg = "kCovToy" /\ this._unfolded /\ last.ret
  /\ Count(last.trace, "ToyLoop") = 1
  /\ LastEreco = ZeroRatMat(this._nt)
  /\ this._haveCov /\ RatMat(this._cov) = ZeroRatMat(this._nt)
  /\ aux.chi2["kCovariance"] = Rat(0)

\* C19: when the unfolded covariance is diagonal with a positive diagonal,
\* Chi2 with kCovariance and Chi2 with kErrors return the same value
C19_DiagonalPathsAgree ==
  (/\ aux.chi2["kCovariance"] # <<>> /\ aux.chi2["kErrors"] # <<>>
   /\ this._haveCov
   /\ \A i, j \in 1..this._nt :
        IF i = j THEN this._cov[i][j] > 0 ELSE this._cov[i][j] = 0)
    => aux.chi2["kCovariance"] = aux.chi2["kErrors"]

C19_Witness ==
  /\ aux.chi2["kCovariance"] # <<>> /\ aux.chi2["kErrors"] # <<>>
  /\ this._haveCov /\ this._unfolded
  /\ \A i, j \in 1..this._nt :
       IF i = j THEN this._cov[i][j] > 1 ELSE this._cov[i][j] = 0
  /\ ~Measured(aux.hTrue, 1) /\ Measured(aux.hTrue, 2)
  /\ aux.chi2["kErrors"][1] > 0 /\ aux.chi2["kErrors"][2] > 1

(***************************************************************************)
(* The factory RooUnfold::New (lines 123-177)                              *)
(***************************************************************************)

\* the enumerators of RooUnfold::Algorithm, and a value that is none of them
Algorithms == {"kNone", "kBayes", "kSVD", "kBinByBin", "kTUnfold", "kInvert", "kDagostini"}
AlgValues == Algorithms \cup {"Algorithm(99)"}

\* a Double_t regparm as <<mantissa, decimal exponent>>; -1e30 is the value
\* New compares with
NoRegParm == <<-1, 30>>
RegParms == {NoRegParm, <<4, 0>>, <<1, 30>>}

\* const char* arguments: null or a string
Names == {<<>>, <<"unfold">>}

\* new C (res, meas): every variant's constructor is the base constructor's
\* Init() and Setup (res, meas)
Construct(class, res, meas) ==
  [class |-> class, base |-> Setup(InitObj, res, ExtHist(meas)),
   name |-> "", title |-> "", regparm |-> <<>>]

\* Variant of SetRegParmIf that applies the parameter whatever its value (C20
\* does not hold of it)
SetRegParmAlways(u, regparm) == [u EXCEPT !.regparm = <<regparm>>]

\* if (regparm != -1e30) unfold->SetRegParm(regparm)
SetRegParmIf(u, regparm) ==
  IF regparm # NoRegParm THEN [u EXCEPT !.regparm = <<regparm>>] ELSE u

\* if (name) unfold->SetName (name); if (title) unfold->SetTitle (title)
SetNames(u, name, title) ==
  [u EXCEPT !.name = IF name # <<>> THEN name[1] ELSE @,
            !.title = IF title # <<>> THEN title[1] ELSE @]

\* the end of New for the instance u the switch created
Finish(u, regparm, name, title) ==
  [unfold |-> <<SetRegParmIf(SetNames(u, name, title), regparm)>>, created |-> 1,
   cerr |-> <<>>]

\* return 0 after the message msg
ReturnNull(msg) == [unfold |-> <<>>, created |-> 0, cerr |-> <<msg>>]

\* RooUnfold::New as built with or without -DNOTUNFOLD and -DHAVE_DAGOSTINI
RooUnfoldNew(alg, res, meas, regparm, name, title, NOTUNFOLD, HAVE_DAGOSTINI) ==
  CASE alg = "kNone" -> Finish(Construct("RooUnfold", res, meas), regparm, name, title)
    [] alg = "kBayes" -> Finish(Construct("RooUnfoldBayes", res, meas), regparm, name, title)
    [] alg = "kSVD" -> Finish(Construct("RooUnfoldSvd", res, meas), regparm, name, title)
    [] alg = "kBinByBin" ->
         Finish(Construct("RooUnfoldBinByBin", res, meas), regparm, name, title)
    [] alg = "kTUnfold" ->
         IF ~NOTUNFOLD
         THEN Finish(Construct("RooUnfoldTUnfold", res, meas), regparm, name, title)
         ELSE ReturnNull("TUnfold library is not available")
    [] alg = "kInvert" -> Finish(Construct("RooUnfoldInvert", res, meas), regparm, name, title)
    [] alg = "kDagostini" ->
         IF HAVE_DAGOSTINI
         THEN Finish(Construct("RooUnfoldDagostini", res, meas), regparm, name, title)
         ELSE ReturnNull("RooUnfoldDagostini is not available")
    [] OTHER -> ReturnNull("Unknown RooUnfold method")

InitNew ==
  /\ Parked
  /\ UsePoissonToys = TRUE
  /\ \E alg \in AlgValues, res \in Responses, meas \in Hists, regparm \in RegParms,
        name \in Names, title \in Names, notunfold \in BOOLEAN, dagostini \in BOOLEAN :
       aux = [op |-> "New", pc |-> "call", alg |-> alg, res |-> res, meas |-> meas,
              regparm |-> regparm, name |-> name, title |-> title,
              NOTUNFOLD |-> notunfold, HAVE_DAGOSTINI |-> dagostini,
              ret |-> ReturnNull("")]

DoNew ==
  /\ aux.pc = "call"
  /\ aux' = [aux EXCEPT !.pc = "return",
                        !.ret = RooUnfoldNew(aux.alg, aux.res, aux.meas, aux.regparm,
                                             aux.name, aux.title, aux.NOTUNFOLD,
                                             aux.HAVE_DAGOSTINI)]
  /\ UNCHANGED <<this, UsePoissonToys, calls, last, nset>>

NextNew == DoNew

SpecNew == InitNew /\ [][NextNew]_vars

\* the algorithms the build provides
Available(notunfold, dagostini) ==
  {"kNone", "kBayes", "kSVD", "kBinByBin", "kInvert"}
    \cup (IF notunfold THEN {} ELSE {"kTUnfold"})
    \cup (IF dagostini THEN {"kDagostini"} ELSE {})

\* the variant each algorithm stands for
VariantOf ==
  [kNone |-> "RooUnfold", kBayes |-> "RooUnfoldBayes", kSVD |-> "RooUnfoldSvd",
   kBinByBin |-> "RooUnfoldBinByBin", kTUnfold |-> "RooUnfoldTUnfold",
   kInvert |-> "RooUnfoldInvert", kDagostini |-> "RooUnfoldDagostini"]

\* C20: New returns an instance of the matching variant for an available
\* algorithm and null, with no instance created, for an unknown value or a
\* backend that is compiled out; the regularisation parameter is set on the
\* instance exactly when it is not -1e30
C20_FactoryContract ==
  aux.pc = "return" =>
    IF aux.alg \in Available(aux.NOTUNFOLD, aux.HAVE_DAGOSTINI)
    THEN /\ aux.ret.unfold # <<>>
         /\ aux.ret.unfold[1].class = VariantOf[aux.alg]
         /\ aux.ret.unfold[1].regparm =
              (IF aux.regparm = <<-1, 30>> THEN <<>> ELSE <<aux.regparm>>)
    ELSE aux.ret.unfold = <<>> /\ aux.ret.created = 0

C20_Witness ==
  /\ aux.pc = "return"
  /\ aux.alg = "kDagostini" /\ aux.HAVE_DAGOSTINI /\ aux.NOTUNFOLD
  /\ aux.ret.unfold # <<>>
  /\ aux.ret.unfold[1].regparm = <<>>

(***************************************************************************)
(* Properties of the result request and of the cached covariance            *)
(***************************************************************************)

\* the flag the error-treatment switch returns for a treatment
TreatmentFlag(s, withError) ==
  CASE withError = "kErrors" -> s._haveErrors
    [] withError = "kCovariance" -> s._haveCov
    [] withError = "kCovToy" -> s._have_err_mat
    [] OTHER -> TRUE

\* C21: a request on an instance whose measured histogram has another bin
\* count than the response's measured histogram prints a warning, still calls
\* Unfold(), and fails and sets _fail only if Unfold() fails or the error
\* treatment does
C21_MismatchNotFatal ==
  [][ (last'.op = "UnfoldWithErrors" /\ ~this._unfolded /\ ~this._fail
         /\ BinsDiffer(this))
      => /\ last'.cerr = <<"Warning">>
         /\ Count(last'.trace, "Unfold") = 1
         /\ last'.ret = (this'._unfolded /\ TreatmentFlag(this', last'.arg))
         /\ this'._fail = ~last'.ret
         /\ last'.arg = "kNoError" => last'.ret = this'._unfolded
    ]_vars

C21_Witness ==
  /\ last.op = "UnfoldWithErrors" /\ last.cerr = <<"Warning">>
  /\ Count(last.trace, "Unfold") = 1
  /\ last.ret /\ this._unfolded /\ ~this._fail

\* C22: a request that runs the base GetCov leaves _cov equal to the measured
\* covariance on the leading min(_nm,_nt) block and zero elsewhere, with
\* _haveCov set; a kErrors request that had to compute the covariance leaves
\* _variances(i) = _cov(i,i) for every truth bin
C22_BaseCovariance ==
  (last.op = "UnfoldWithErrors" /\ Count(last.trace, "GetCov") = 1) =>
    /\ this._haveCov
    /\ \A i, j \in 1..this._nt :
         this._cov[i][j] = (IF i <= Min(this._nm, this._nt) /\ j <= Min(this._nm, this._nt)
                            THEN Deref(this._covMes)[i][j] ELSE 0)
    /\ last.arg = "kErrors" =>
         /\ this._haveErrors
         /\ \A i \in 1..this._nt : this._variances[i] = this._cov[i][i]

C22_Witness ==
  /\ last.op = "UnfoldWithErrors" /\ last.arg = "kErrors"
  /\ Count(last.trace, "GetCov") = 1 /\ Count(last.trace, "GetErrors") = 1
  /\ this._nm < this._nt
  /\ this._variances[this._nt] # 0

(***************************************************************************)
(* Resize of a 1-D histogram (lines 917-1016)                              *)
(***************************************************************************)

MaxBins == 2     \* histograms handed to Resize have 1..MaxBins bins

\* TAxis::Set and TH1::SetBinsLength: nx bins, the content and error arrays
\* cut or zero-extended to nx+2 cells
SetBinsLength(h, nx) ==
  [nx |-> nx, c |-> ResizeVec(h.c, nx + 2), e |-> ResizeVec(h.e, nx + 2)]

\* the loop over i= 0..nx for nd==1: bin i from the clone hc, 0 beyond mx
CopyBins(h, hc) ==
  [h EXCEPT !.c = [b \in 1..(h.nx + 2) |->
                     IF b - 1 > h.nx THEN h.c[b]
                     ELSE IF b - 1 > hc.nx THEN 0 ELSE GetBinContent(hc, b - 1)],
            !.e = [b \in 1..(h.nx + 2) |->
                     IF b - 1 > h.nx THEN h.e[b]
                     ELSE IF b - 1 > hc.nx THEN 0 ELSE GetBinError(hc, b - 1)]]

\* h->SetBinContent (px, h->GetBinContent (ox)), and the same for the error
CopyOverflow(h, ox) ==
  SetBin(h, h.nx + 1, GetBinContent(h, ox), GetBinError(h, ox))

\* RooUnfold::Resize for a 1-D histogram that stores its errors (Sumw2)
Resize(h, nx) ==
  IF nx < 0 \/ nx = h.nx THEN h
  ELSE CopyOverflow(CopyBins(SetBinsLength(h, nx), h), h.nx + 1)

\* 1-D histograms with mx bins: contents 0..MaxMeas, errors 0 or 1
ResizeHists(mx) ==
  {[nx |-> mx, c |-> c, e |-> e] :
     c \in [1..(mx + 2) -> 0..MaxMeas], e \in [1..(mx + 2) -> {0, 1}]}

InitResize ==
  /\ Parked
  /\ UsePoissonToys = TRUE
  /\ \E mx \in 1..MaxBins : \E h \in ResizeHists(mx) :
       \E nx \in {-1} \cup (1..(MaxBins + 1)) :
         aux = [op |-> "Resize", pc |-> "call", h |-> h, nx |-> nx, ret |-> NoHist]

DoResize ==
  /\ aux.pc = "call"
  /\ aux' = [aux EXCEPT !.pc = "return", !.ret = Resize(aux.h, aux.nx)]
  /\ UNCHANGED <<this, UsePoissonToys, calls, last, nset>>

NextResize == DoResize

SpecResize == InitResize /\ [][NextResize]_vars

\* the bin count Resize is asked for (a negative count keeps the old one)
NewBins == IF aux.nx < 0 THEN aux.h.nx ELSE aux.nx

\* C23: a resized 1-D histogram has, in every bin up to the new last bin, the
\* old content and error of that bin number, or zero if the bin is new, and
\* in its overflow bin the old overflow content and error
C23_ResizeKeepsBins ==
  aux.pc = "return" =>
    /\ aux.ret.nx = NewBins
    /\ \A b \in 0..NewBins :
         /\ GetBinContent(aux.ret, b) = (IF b <= aux.h.nx THEN GetBinContent(aux.h, b) ELSE 0)
         /\ GetBinError(aux.ret, b) = (IF b <= aux.h.nx THEN GetBinError(aux.h, b) ELSE 0)
    /\ GetBinContent(aux.ret, NewBins + 1) = GetBinContent(aux.h, aux.h.nx + 1)
    /\ GetBinError(aux.ret, NewBins + 1) = GetBinError(aux.h, aux.h.nx + 1)

C23_Witness ==
  /\ aux.pc = "return"
  /\ aux.nx > aux.h.nx
  /\ GetBinContent(aux.h, aux.h.nx + 1) > 0
  /\ GetBinContent(aux.ret, aux.nx + 1) = 0

(***************************************************************************)
(* The measured covariance and its Cholesky factor over the instance's life *)
(***************************************************************************)

\* a covariance the instance was given before the calls that are explored
EarlierCov(n) == [i \in 1..n |-> [j \in 1..n |-> IF i = j THEN 1 ELSE 0]]

\* whether RunToy decomposes _covMes: it has one and no factor yet
Decomposes(s) == s._haveCovMes /\ IsNull(s._covL)

\* a call of RunToy: the parent afterwards, the decomposition it ran, the toy
RunToyFrame(s, poisson, rnd) ==
  [self  |-> RunToy(s, poisson, rnd).parent,
   trace |-> IF Decomposes(s) THEN <<"TDecompChol">> ELSE <<>>,
   ret   |-> TRUE,
   toys  |-> <<[x |-> Vmeasured(RunToy(s, poisson, rnd).toy), unfolds |-> 0,
                deleted |-> FALSE]>>,
   cerr  |-> <<>>]

\* a constructed instance, with or without a measured covariance set
InitLife ==
  /\ \E res \in Responses, h \in Hists, cov \in BOOLEAN :
       this = IF cov
              THEN SetMeasuredCov(Setup(InitObj, res, ExtHist(h)),
                                  EarlierCov(Setup(InitObj, res, ExtHist(h))._nm))
              ELSE Setup(InitObj, res, ExtHist(h))
  /\ UsePoissonToys = TRUE
  /\ calls = NoCalls
  /\ last = [op |-> "RooUnfold", arg |-> "", ret |-> TRUE, trace |-> <<>>, toys |-> <<>>,
            cerr |-> <<>>]
  /\ nset = 0
  /\ aux = NoAux

\* RooUnfold::GetMeasuredCov; the matrix returned is *_covMes
DoGetMeasuredCov ==
  /\ RangeOK(this)
  /\ this' = GetMeasuredCov(this)
  /\ last' = Called("GetMeasuredCov", "", Void(this'))
  /\ UNCHANGED <<UsePoissonToys, calls, nset, aux>>

\* RooUnfold::RunToy; the caller owns the toy
DoRunToy(rnd) ==
  /\ RangeOK(this)
  /\ this' = RunToyFrame(this, UsePoissonToys, rnd).self
  /\ last' = Called("RunToy", "", RunToyFrame(this, UsePoissonToys, rnd))
  /\ UNCHANGED <<UsePoissonToys, calls, nset, aux>>

NextLife ==
  \/ \E res \in Responses, h \in Hists : DoSetup(res, h)
  \/ DoReset
  \/ \E rhs \in Others : DoAssign(rhs)
  \/ \E h \in Hists : DoSetMeasured(h)
  \/ \E meas \in VecInputs(this._nm), err \in ErrInputs(this._nm) :
       DoSetMeasuredVec(meas, err)
  \/ \E meas \in VecInputs(this._nm), cov \in CovInputs(this._nm) :
       DoSetMeasuredVecCov(meas, cov)
  \/ \E cov \in CovInputs(this._nm) : DoSetMeasuredCov(cov)
  \/ DoGetMeasuredCov
  \/ \E rnd \in ToyRnds(this) : DoRunToy(rnd)

SpecLife == InitLife /\ [][NextLife]_vars

\* the errors of the measured distribution now set, squared, on a diagonal
CurrentErrCov(s) ==
  [i \in 1..s._nm |-> [j \in 1..s._nm |->
     IF i = j
     THEN H2VE(MeasHist(s), GetNbinsMeasured(Deref(s._res)), s._overflow)[i]
            * H2VE(MeasHist(s), GetNbinsMeasured(Deref(s._res)), s._overflow)[i]
     ELSE 0]]

\* C24: when no covariance was set with SetMeasuredCov, GetMeasuredCov
\* returns the diagonal matrix of the squared errors of the measured
\* distribution that is set when it is called
C24_MeasuredCovIsCurrent ==
  (last.op = "GetMeasuredCov" /\ ~this._haveCovMes)
    => Deref(this._covMes) = CurrentErrCov(this)

C24_Witness ==
  /\ last.op = "GetMeasuredCov" /\ ~this._haveCovMes
  /\ nset = 1
  /\ this._meas.kind = "ext"
  /\ Deref(this._covMes) # CurrentErrCov(this)

\* C26: a toy run of an instance with a measured covariance decomposes it
\* only if there is no factor yet and otherwise reuses _covL; SetMeasuredCov
\* discards _covL; and whenever _covL is non-null it is the lower-triangular
\* Cholesky factor of the current _covMes
C26_CholeskyOncePerCovariance ==
  [][ /\ (last'.op = "RunToy" /\ this._haveCovMes) =>
           /\ ~IsNull(this'._covL)
           /\ Count(last'.trace, "TDecompChol") = (IF IsNull(this._covL) THEN 1 ELSE 0)
           /\ ~IsNull(this._covL) => this'._covL = this._covL
      /\ last'.op = "SetMeasuredCov" => IsNull(this'._covL)
      /\ ~IsNull(this'._covL) =>
           /\ ~IsNull(this'._covMes)
           /\ Deref(this'._covL) = Cholesky(Deref(this'._covMes))
    ]_vars

\* a toy run that decomposed a covariance set after the first one
C26_Witness ==
  /\ last.op = "RunToy" /\ Count(last.trace, "TDecompChol") = 1
  /\ nset = 1 /\ this._haveCovMes
  /\ Deref(this._covMes) # EarlierCov(this._nm)
  /\ Deref(this._covL) = Cholesky(Deref(this._covMes))

----------------------------------------------------------------------------
(***************************************************************************)
(* Hreco and PrintTable (lines 499-599, 629-695)                           *)
(***************************************************************************)

\* the response's truth histogram: GetNbinsTruth() bins
ResHtruth(r) ==
  [nx |-> r.nt, c |-> [b \in 1..(r.nt + 2) |-> 1], e |-> [b \in 1..(r.nt + 2) |-> 1]]

\* RooUnfoldResponse::ApplyToTruth: the truth histogram folded with the response,
\* kept as the pair it is computed from
ApplyToTruth(res, truth) == [res |-> res, truth |-> truth]

\* RooUnfold::CalculateLikelihood of data d against the folded histogram t: a
\* function of its two arguments, kept as one value to be added
CalculateLikelihood(d, t) == <<[d |-> d, t |-> t]>>

\* what TVectorD / TMatrixD operator() return for an index out of range
NaN == <<0, 0>>

\* the value Hreco takes the square root of for truth bin i (from 1)
Variance(s, withError, i) ==
  CASE withError = "kErrors" ->
         IF i <= Len(s._variances) THEN Rat(s._variances[i]) ELSE NaN
    [] withError = "kCovariance" ->
         IF i <= Len(s._cov) THEN Rat(s._cov[i][i]) ELSE NaN
    [] withError = "kCovToy" ->
         IF i <= Len(s._err_mat) THEN s._err_mat[i][i] ELSE NaN
    [] OTHER -> Rat(0)

\* reco after _res->Htruth()->Clone() and Reset(). The histogram Hreco returns is
\* [nx, c, e2]: e2 holds the square of each bin error, the value fabs(...) whose
\* square root SetBinError stores
EmptyReco(s) ==
  [nx |-> ResHtruth(Deref(s._res)).nx,
   c  |-> ZeroVec(ResHtruth(Deref(s._res)).nx + 2),
   e2 |-> [b \in 1..(ResHtruth(Deref(s._res)).nx + 2) |-> Rat(0)]]

\* reco->SetBinContent (j, _rec(i)) and, unless withError is kNoError,
\* reco->SetBinError (j, sqrt (fabs (...)))
SetReco(reco, j, s, withError, i) ==
  IF j < 0 \/ j > reco.nx + 1 THEN reco
  ELSE [reco EXCEPT !.c[j + 1] = s._rec[i],
                    !.e2[j + 1] = IF withError = "kNoError" THEN @
                                  ELSE RatAbs(Variance(s, withError, i))]

RECURSIVE FillReco(_, _, _, _)
\* the loop of Hreco from truth bin i (from 0) on
FillReco(reco, s, withError, i) ==
  IF i >= s._nt THEN reco
  ELSE FillReco(SetReco(reco, GetBin(reco, i, s._overflow), s, withError, i + 1),
                s, withError, i + 1)

\* Variant of Treatment that keeps the requested treatment after a failed request
\* (C27 does not hold of it)
TreatmentKept(f, withError) == withError

\* if (!UnfoldWithErrors (withError)) withError= kNoError
Treatment(f, withError) == IF ~f.ret THEN "kNoError" ELSE withError

\* a return of Hreco: the frame of the call and the histogram returned
RecoRet(f, reco) == [f |-> f, reco |-> reco]

\* the end of Hreco: the filled histogram is folded and _LL is set
Refolded(f, reco) ==
  RecoRet([f EXCEPT !.self._LL =
             CalculateLikelihood(MeasHist(f.self),
                                 ApplyToTruth(Deref(f.self._res), reco))],
          reco)

\* Hreco after the request, with the treatment withError it goes on with
RecoOf(f, withError) ==
  IF ~f.self._unfolded THEN RecoRet(f, EmptyReco(f.self))
  ELSE Refolded(f, FillReco(EmptyReco(f.self), f.self, withError, 0))

\* Hreco after its call of UnfoldWithErrors (frame f)
HrecoAfter(f, withError) == RecoOf(f, Treatment(f, withError))

\* RooUnfold::Hreco
Hreco(s, withError, ok, poisson, rnds) ==
  HrecoAfter(UnfoldWithErrors(s, withError, ok, poisson, rnds), withError)

(* PrintTable: the five columns of per-bin contents and the line of totals. The *)
(* columns of errors, differences and pulls and the closing chi-squared line    *)
(* are not kept. A cell is <<>> when it is printed blank, <<v>> otherwise.      *)

\* one cell: the value, printed when the row is within the column's bins
Cell(shown, v) == IF shown THEN <<v>> ELSE <<>>

\* the row of bin i (from 0): the cells printed
Row(s, hTrue, hReco, i) ==
  [TrainTruth    |-> Cell(i < s._nt, GetBinContent(ResHtruth(Deref(s._res)),
                                                   GetBin(hReco, i, s._overflow))),
   TrainMeasured |-> Cell(i < s._nm, GetBinContent(ResHmeasured(Deref(s._res)),
                                                   GetBin(MeasHist(s), i, s._overflow))),
   TestTruth     |-> IF IsNull(hTrue) THEN <<>>
                     ELSE Cell(i < s._nt, GetBinContent(Deref(hTrue),
                                                        GetBin(hReco, i, s._overflow))),
   TestInput     |-> Cell(i < s._nm, GetBinContent(MeasHist(s),
                                                   GetBin(MeasHist(s), i, s._overflow))),
   Unfolded      |-> Cell(i < s._nt, GetBinContent(hReco, GetBin(hReco, i, s._overflow)))]

\* what the loop adds to the five totals for bin i (from 0)
Added(s, hTrue, hReco, i) ==
  [TrainTruth    |-> GetBinContent(ResHtruth(Deref(s._res)), GetBin(hReco, i, s._overflow)),
   TrainMeasured |-> GetBinContent(ResHmeasured(Deref(s._res)),
                                   GetBin(MeasHist(s), i, s._overflow)),
   TestTruth     |-> IF IsNull(hTrue) THEN 0
                     ELSE GetBinContent(Deref(hTrue), GetBin(hReco, i, s._overflow)),
   TestInput     |-> GetBinContent(MeasHist(s), GetBin(MeasHist(s), i, s._overflow)),
   Unfolded      |-> GetBinContent(hReco, GetBin(hReco, i, s._overflow))]

Columns == {"TrainTruth", "TrainMeasured", "TestTruth", "TestInput", "Unfolded"}

RECURSIVE Totals(_, _, _, _)
\* the five totals after the first k bins
Totals(s, hTrue, hReco, k) ==
  IF k = 0 THEN [col \in Columns |-> 0]
  ELSE [col \in Columns |->
          Totals(s, hTrue, hReco, k - 1)[col] + Added(s, hTrue, hReco, k - 1)[col]]

\* Int_t maxbin= _nt < _nm ? _nm : _nt
MaxBin(s) == IF s._nt < s._nm THEN s._nm ELSE s._nt

\* the table printed: the rows and the line of totals, whose test-truth cell is
\* blank without hTrue
Table(s, hTrue, hReco) ==
  [rows   |-> [k \in 1..MaxBin(s) |-> Row(s, hTrue, hReco, k - 1)],
   totals |-> [col \in Columns |->
                 Cell(col # "TestTruth" \/ ~IsNull(hTrue),
                      Totals(s, hTrue, hReco, MaxBin(s))[col])]]

\* a return of PrintTable: the frame of the call and what it printed
TableRet(f, table) == [f |-> f, table |-> table]

\* the closing line: with hTrue and a covariance treatment it calls Chi2, whose
\* request runs after the one of Hreco
ChiLine(f, hTrue, withError, poisson) ==
  IF ~IsNull(hTrue) /\ withError \in {"kCovariance", "kCovToy"}
  THEN AfterFrame(f, UnfoldWithErrors(f.self, withError, TRUE, poisson, <<>>))
  ELSE f

\* PrintTable after its call of Hreco (return r)
Printed(r, hTrue, withError, poisson) ==
  IF ~r.f.self._unfolded THEN TableRet(r.f, <<>>)
  ELSE TableRet(ChiLine(r.f, hTrue, withError, poisson),
                <<Table(r.f.self, hTrue, r.reco)>>)

\* RooUnfold::PrintTable
PrintTable(s, hTrue, withError, ok, poisson, rnds) ==
  Printed(Hreco(s, withError, ok, poisson, rnds), hTrue, withError, poisson)

\* responses whose measured bins are fewer than, as many as and more than their
\* truth bins
RecoResponses ==
  Responses \cup {[nm |-> 2, nt |-> 1, overflow |-> FALSE],
                  [nm |-> 1, nt |-> 1, overflow |-> FALSE]}

\* a constructed instance, and the test truth histogram the caller has (or has
\* not) for PrintTable
InitReco ==
  /\ \E res \in RecoResponses, h \in Hists, n \in ToyCounts :
       /\ this = [Setup(InitObj, res, ExtHist(h)) EXCEPT !._NToys = n]
       /\ \E t \in {<<>>, <<HistB(res.nt)>>} :
            aux = [op |-> "Hreco", hTrue |-> t, reco |-> <<>>, table |-> <<>>]
  /\ UsePoissonToys = TRUE
  /\ calls = NoCalls
  /\ last = [op |-> "RooUnfold", arg |-> "", ret |-> TRUE, trace |-> <<>>, toys |-> <<>>,
            cerr |-> <<>>]
  /\ nset = 0

\* the state after a call of Hreco that returned r
RecoReturned(withError, r) ==
  /\ Returned("Hreco", withError, r.f)
  /\ aux' = [aux EXCEPT !.reco = <<r.reco>>]

DoHreco(withError, ok, rnds) ==
  /\ RecoReturned(withError, Hreco(this, withError, ok, UsePoissonToys, rnds))
  /\ UNCHANGED <<UsePoissonToys, nset>>

\* the state after a call of PrintTable that returned r
TableReturned(withError, r) ==
  /\ Returned("PrintTable", withError, r.f)
  /\ aux' = [aux EXCEPT !.table = r.table]

DoPrintTable(withError, ok, rnds) ==
  /\ TableReturned(withError,
                   PrintTable(this, aux.hTrue, withError, ok, UsePoissonToys, rnds))
  /\ UNCHANGED <<UsePoissonToys, nset>>

NextReco ==
  \/ \E w \in ErrorTreatments, ok \in UnfoldOutcomes(this) :
       \E rnds \in RequestRnds(this, w) : DoHreco(w, ok, rnds)
  \/ \E w \in ErrorTreatments, ok \in UnfoldOutcomes(this) :
       \E rnds \in RequestRnds(this, w) : DoPrintTable(w, ok, rnds)

SpecReco == InitReco /\ [][NextReco]_vars

RECURSIVE Listed(_, _, _)
\* the sum of the values listed in column col of the first k rows
Listed(rows, col, k) ==
  IF k = 0 THEN 0
  ELSE Listed(rows, col, k - 1) + (IF rows[k][col] = <<>> THEN 0 ELSE rows[k][col][1])

\* C25: in the table PrintTable prints, each column total that is printed equals
\* the sum of the values listed in that column's rows, also when _nt differs
\* from _nm
C25_TotalsMatchRows ==
  (last.op = "PrintTable" /\ aux.table # <<>>) =>
    \A col \in Columns :
      aux.table[1].totals[col] # <<>> =>
        aux.table[1].totals[col][1] =
          Listed(aux.table[1].rows, col, Len(aux.table[1].rows))

\* a table was printed for an instance whose truth and measured bin counts differ,
\* with blank cells in its last row
C25_Witness ==
  /\ last.op = "PrintTable" /\ aux.table # <<>>
  /\ this._nt # this._nm
  /\ \E col \in Columns :
       aux.table[1].rows[Len(aux.table[1].rows)][col] = <<>> /\ aux.table[1].totals[col] # <<>>

\* C27: a call of Hreco whose request leaves the instance not unfolded returns
\* the truth histogram with every bin empty and leaves _LL as it was; a call
\* whose request fails on an unfolded instance returns _rec in the truth bins
\* with every bin error zero
C27_HrecoDegrades ==
  [][last'.op = "Hreco" =>
       /\ ~this'._unfolded =>
            (aux'.reco = <<EmptyReco(this')>> /\ this'._LL = this._LL)
       /\ (this'._unfolded /\ ~last'.ret) =>
            /\ \A i \in 1..this'._nt :
                 aux'.reco[1].c[GetBin(aux'.reco[1], i - 1, this'._overflow) + 1]
                   = this'._rec[i]
            /\ \A b \in 1..(aux'.reco[1].nx + 2) : aux'.reco[1].e2[b] = Rat(0)]_vars

\* Hreco (kCovToy) with a toy count of 1 returned the unfolded contents: the
\* request ran Unfold() and failed in GetErrMat
C27_Witness ==
  /\ last.op = "Hreco" /\ last.arg = "kCovToy" /\ ~last.ret
  /\ this._unfolded /\ this._NToys <= 1
  /\ Count(last.trace, "Unfold") = 1
  /\ \E b \in 1..(aux.reco[1].nx + 2) : aux.reco[1].c[b] # 0

----------------------------------------------------------------------------
(***************************************************************************)
(* Chi2 on an instance with a measured covariance (lines 431-497)          *)
(***************************************************************************)

\* a response with three measured and three truth bins
CovResponse == [nm |-> 3, nt |-> 3, overflow |-> FALSE]

\* measured covariances of three bins, both positive definite: uncorrelated bins,
\* and a middle bin anti-correlated with its neighbours so that its row sums to 0
ChiCovs ==
  {<<<<4, 0, 0>>, <<0, 9, 0>>, <<0, 0, 4>>>>,
   <<<<4, -4, 2>>, <<-4, 9, -5>>, <<2, -5, 4>>>>}

\* measured histograms of three bins with contents from {1, 4}
CovMeas ==
  {[nx |-> 3, c |-> <<0, c[1], c[2], c[3], 0>>, e |-> <<0, 1, 1, 1, 0>>] :
     c \in {1, 4} \X {1, 4} \X {1, 4}}

CovTruth ==
  {[nx |-> 3, c |-> <<0, b[1][1], b[2][1], b[3][1], 0>>,
    e |-> <<0, b[1][2], b[2][2], b[3][2], 0>>] :
     b \in TruthBins \X TruthBins \X {<<1, 0>>}}

\* an instance constructed from a response and a histogram, then given the
\* covariance of the measurement
InitChiCov ==
  /\ \E h \in CovMeas, cov \in ChiCovs :
       this = SetMeasuredCov(Setup(InitObj, CovResponse, ExtHist(h)), cov)
  /\ UsePoissonToys = TRUE
  /\ calls = NoCalls
  /\ last = [op |-> "RooUnfold", arg |-> "", ret |-> TRUE, trace |-> <<>>, toys |-> <<>>,
            cerr |-> <<>>]
  /\ nset = 0
  /\ \E t \in CovTruth :
       aux = [op |-> "Chi2", hTrue |-> t, chi2 |-> [w \in ErrorTreatments |-> <<>>]]

\* Chi2 with the treatments that run no toys
NextChiCov ==
  \E w \in {"kNoError", "kErrors", "kCovariance"}, ok \in UnfoldOutcomes(this) :
    CallChi2(w, ok, <<>>)

SpecChiCov == InitChiCov /\ [][NextChiCov]_vars

\* C28: the value a call of Chi2 returned is -1 exactly when the instance is not
\* unfolded after the call
C28_SentinelOnlyWhenNotUnfolded ==
  last.op = "Chi2" => ((aux.chi2[last.arg] = Rat(-1)) <=> ~this._unfolded)

\* a call of the covariance mode returned the value it computed from a reduced
\* system, on an unfolded instance
C28_Witness ==
  /\ last.op = "Chi2" /\ last.arg = "kCovariance"
  /\ this._unfolded
  /\ Count(last.trace, "TDecompSVD") = 1
  /\ Len(CutZeros(LastEreco)) = 2

\* C29: when Chi2 fills the reduced residual vector, the bins it copies (non-zero
\* diagonal entry) are the bins of the rows CutZeros kept (non-zero row sum), in
\* number and in order
C29_ResidualAligned ==
  (last.op = "Chi2" /\ Count(last.trace, "TDecompSVD") = 1) =>
    NonZeroDiag(LastEreco) = Kept(LastEreco)

\* the covariance mode filled the residual vector for a matrix from which
\* CutZeros removed a bin
C29_Witness ==
  /\ last.op = "Chi2" /\ Count(last.trace, "TDecompSVD") = 1
  /\ Len(CutZeros(LastEreco)) < Len(LastEreco)

----------------------------------------------------------------------------
(***************************************************************************)
(* Ownership of the heap objects (lines 113-323, 735-784)                  *)
(*                                                                         *)
(* The instance as its pointers only. An owned pointer is "null", "live"   *)
(* (it points to an object that exists) or "freed" (it points to an object *)
(* that was deleted). _meas is "null", "ext" (the caller's histogram),     *)
(* "mine" (the object of _measmine) or "gone" (an object that was          *)
(* deleted). A reference argument is "ext" (an object of the caller) or    *)
(* the name of the owned pointer whose object it refers to, as returned by *)
(* Hmeasured(), Emeasured() or GetMeasuredCov(); argGone tells that this   *)
(* object was deleted during the call. twice and stale collect the         *)
(* pointers whose object was deleted twice, or used after its deletion.    *)
(***************************************************************************)

Owned == {"_measmine", "_vMes", "_eMes", "_covMes", "_covL"}

\* delete p
Del(h, p) ==
  IF h[p] = "freed" THEN [h EXCEPT !.twice = @ \cup {p}]
  ELSE IF h[p] = "live"
       THEN [h EXCEPT ![p] = "freed", !.argGone = @ \/ h.arg = p]
       ELSE h

\* p= 0
Null(h, p) == [h EXCEPT ![p] = "null"]

\* p= new ...
Alloc(h, p) == [h EXCEPT ![p] = "live"]

\* a use of *p
Use(h, p) == IF h[p] = "freed" THEN [h EXCEPT !.stale = @ \cup {p}] ELSE h

\* a use of the reference argument of the call
UseArg(h) ==
  IF h.arg # "ext" /\ h.argGone THEN [h EXCEPT !.stale = @ \cup {h.arg}] ELSE h

\* a use of *_meas
UseMeas(h) ==
  IF h._meas = "gone" \/ (h._meas = "mine" /\ h._measmine # "live")
  THEN [h EXCEPT !.stale = @ \cup {"_measmine"}] ELSE h

\* entry of a method whose reference argument is arg
Enter(h, arg) == [h EXCEPT !.arg = arg, !.argGone = FALSE]

\* RooUnfold::Destroy
OwnDestroy(h) ==
  Del(Del(Del(Del(Del(h, "_measmine"), "_vMes"), "_eMes"), "_covMes"), "_covL")

\* RooUnfold::Init
OwnInit(h) ==
  [h EXCEPT !._res = "null", !._vMes = "null", !._eMes = "null", !._covMes = "null",
            !._covL = "null", !._meas = "null", !._measmine = "null",
            !._haveCovMes = FALSE]

\* RooUnfold::Reset
OwnReset(h) == OwnInit(OwnDestroy(h))

\* RooUnfold::SetResponse
OwnSetResponse(h) == [h EXCEPT !._res = "ext"]

\* what _meas= meas stores for the argument of the call
Stored(h) ==
  IF h.arg = "ext" THEN "ext"
  ELSE IF h.argGone \/ h._measmine # "live" THEN "gone" ELSE "mine"

\* RooUnfold::SetMeasured (const TH1*), entered
OwnSetMeasured(h) ==
  Null(Del(Null(Del([h EXCEPT !._meas = Stored(h)], "_vMes"), "_vMes"), "_eMes"), "_eMes")

\* RooUnfold::Setup, entered
OwnSetup(h) == OwnSetMeasured(OwnSetResponse(OwnReset(h)))

\* Vmeasured() / Emeasured() (RooUnfold.h): the vector is made from *_meas when
\* the pointer is null, and the caller uses it
OwnVmeasured(h) ==
  IF h._vMes = "null" THEN Alloc(UseMeas(h), "_vMes") ELSE Use(h, "_vMes")
OwnEmeasured(h) ==
  IF h._eMes = "null" THEN Alloc(UseMeas(h), "_eMes") ELSE Use(h, "_eMes")

\* the clone of the response's measured histogram, made when _measmine is null
WithMeasmine(h) == IF h._measmine = "null" THEN Alloc(h, "_measmine") ELSE h

\* RooUnfold::SetMeasured (const TVectorD&, const TVectorD&), entered: the loop
\* reads err and writes *_measmine, then SetMeasured (_measmine)
OwnSetMeasuredVec(h) ==
  OwnSetMeasured(Enter(Use(UseArg(WithMeasmine(h)), "_measmine"), "_measmine"))

\* RooUnfold::SetMeasuredCov, entered: the loop and the copy read cov after the
\* three deletes
OwnSetMeasuredCov(h) ==
  [Alloc(UseArg(Alloc(Del(Del(Null(Del(h, "_covL"), "_covL"), "_eMes"), "_covMes"),
                      "_eMes")),
         "_covMes") EXCEPT !._haveCovMes = TRUE]

\* RooUnfold::SetMeasured (const TVectorD&, const TMatrixD&), entered
OwnSetMeasuredVecCov(h) ==
  OwnSetMeasuredVec(Enter(OwnEmeasured(OwnSetMeasuredCov(h)), "_eMes"))

\* RooUnfold::GetMeasuredCov, and the caller's use of the matrix returned
OwnGetMeasuredCov(h) ==
  IF h._covMes # "null" THEN Use(h, "_covMes")
  ELSE Alloc(OwnEmeasured(h), "_covMes")

\* the Cholesky factor RunToy makes from *_covMes when _covL is null
WithL(h) == IF h._covL = "null" THEN Alloc(Use(h, "_covMes"), "_covL") ELSE h

\* RooUnfold::RunToy: the toy is a new instance with pointers of its own, which
\* copies _res and _meas and reads the vectors and the covariance of this one
OwnRunToy(h) ==
  IF h._haveCovMes
  THEN Use(OwnVmeasured(Use(WithL(h), "_covL")), "_covMes")
  ELSE OwnEmeasured(OwnVmeasured(h))

\* RooUnfold::Assign from another instance: Reset(), CopyData (rhs)
OwnAssign(h) == OwnSetup(Enter(OwnReset(h), "ext"))

\* the histograms a caller can pass: one of its own, or the one Hmeasured()
\* returns when that is the instance's own
HistArgs(h) == {"ext"} \cup (IF h._meas = "mine" THEN {"_measmine"} ELSE {})

\* the covariances a caller can pass: one of its own, or the one
\* GetMeasuredCov() has returned
CovArgs(h) == {"ext"} \cup (IF h._covMes = "live" THEN {"_covMes"} ELSE {})

\* the error vectors a caller can pass: one of its own, or the one Emeasured()
\* has returned
ErrArgs(h) == {"ext"} \cup (IF h._eMes = "live" THEN {"_eMes"} ELSE {})

\* the instance after Init()
NoHeap ==
  [_measmine |-> "null", _vMes |-> "null", _eMes |-> "null", _covMes |-> "null",
   _covL |-> "null", _meas |-> "null", _res |-> "null", _haveCovMes |-> FALSE,
   arg |-> "ext", argGone |-> FALSE, twice |-> {}, stale |-> {}, call |-> "RooUnfold",
   op |-> "own"]

\* RooUnfold::RooUnfold (res, meas)
InitOwn ==
  /\ Parked
  /\ UsePoissonToys = TRUE
  /\ aux = OwnSetup(NoHeap)

\* the state after the call of a method gave h
Owns(call, h) == aux' = [h EXCEPT !.call = call, !.arg = "ext", !.argGone = FALSE]

OwnDoSetMeasured(arg) ==
  /\ Owns("SetMeasured", OwnSetMeasured(Enter(aux, arg)))
  /\ UNCHANGED <<this, UsePoissonToys, calls, last, nset>>

\* the methods that need a response are called on an instance that has one
OwnDoSetMeasuredVec(arg) ==
  /\ aux._res # "null"
  /\ Owns("SetMeasuredVec", OwnSetMeasuredVec(Enter(aux, arg)))
  /\ UNCHANGED <<this, UsePoissonToys, calls, last, nset>>

OwnDoSetMeasuredVecCov(arg) ==
  /\ aux._res # "null"
  /\ Owns("SetMeasuredVecCov", OwnSetMeasuredVecCov(Enter(aux, arg)))
  /\ UNCHANGED <<this, UsePoissonToys, calls, last, nset>>

OwnDoSetMeasuredCov(arg) ==
  /\ aux._res # "null"
  /\ Owns("SetMeasuredCov", OwnSetMeasuredCov(Enter(aux, arg)))
  /\ UNCHANGED <<this, UsePoissonToys, calls, last, nset>>

\* the methods that read the measured histogram are called on an instance that
\* has one
OwnDoGetMeasuredCov ==
  /\ aux._meas # "null"
  /\ Owns("GetMeasuredCov", OwnGetMeasuredCov(aux))
  /\ UNCHANGED <<this, UsePoissonToys, calls, last, nset>>

OwnDoRunToy ==
  /\ aux._meas # "null"
  /\ Owns("RunToy", OwnRunToy(aux))
  /\ UNCHANGED <<this, UsePoissonToys, calls, last, nset>>

OwnDoReset ==
  /\ Owns("Reset", OwnReset(aux))
  /\ UNCHANGED <<this, UsePoissonToys, calls, last, nset>>

OwnDoSetup(arg) ==
  /\ Owns("Setup", OwnSetup(Enter(aux, arg)))
  /\ UNCHANGED <<this, UsePoissonToys, calls, last, nset>>

OwnDoAssign ==
  /\ Owns("Assign", OwnAssign(aux))
  /\ UNCHANGED <<this, UsePoissonToys, calls, last, nset>>

NextOwn ==
  \/ \E arg \in HistArgs(aux) : OwnDoSetMeasured(arg)
  \/ \E arg \in ErrArgs(aux) : OwnDoSetMeasuredVec(arg)
  \/ \E arg \in CovArgs(aux) : OwnDoSetMeasuredVecCov(arg)
  \/ \E arg \in CovArgs(aux) : OwnDoSetMeasuredCov(arg)
  \/ OwnDoGetMeasuredCov
  \/ OwnDoRunToy
  \/ OwnDoReset
  \/ \E arg \in HistArgs(aux) : OwnDoSetup(arg)
  \/ OwnDoAssign

SpecOwn == InitOwn /\ [][NextOwn]_vars

\* C30: no owned object is deleted twice, none is used after its deletion, and
\* after Reset the five owned pointers are null
C30_OwnedReleasedOnce ==
  /\ aux.twice = {}
  /\ aux.stale = {}
  /\ aux.call = "Reset" => \A p \in Owned : aux[p] = "null"

\* an instance that owns all five objects: its histogram, both vectors, the
\* covariance and, after RunToy, the Cholesky factor
C30_Witness ==
  /\ aux.call = "RunToy"
  /\ \A p \in Owned : aux[p] = "live"

----------------------------------------------------------------------------
(* Properties of Setup, Reset and the copies *)

\* the six flags are false and there is no measured covariance
Fresh(s) ==
  /\ ~s._unfolded /\ ~s._fail /\ ~s._haveCov /\ ~s._haveErrors /\ ~s._have_err_mat
  /\ ~s._haveCovMes /\ IsNull(s._covMes) /\ IsNull(s._covL)

\* c has the response, the measured histogram, the verbosity and the toy count
\* of rhs
Takes(c, rhs) ==
  /\ c._res = rhs._res
  /\ MeasHist(c) = MeasHist(rhs)
  /\ c._verbose = rhs._verbose
  /\ c._NToys = rhs._NToys

\* C31 as stated: after Setup or Reset the toy count is 50 and the verbosity 1;
\* after any Assign the instance is not unfolded, not failed and has no measured
\* covariance, and a Clone of the instance in any state takes its four settings
\* and none of its flags
C31_CopiesStartFresh ==
  [][ /\ last'.op \in {"Reset", "Setup"} =>
           (this'._NToys = DefaultNToys /\ this'._verbose = DefaultVerbose)
      /\ last'.op = "Assign" => Fresh(this')
      /\ Configured(this) => (Takes(Clone(this), this) /\ Fresh(Clone(this)))
    ]_vars

\* C31, for copies from another instance: after Setup or Reset the toy count is
\* 50 and the verbosity 1; after Assign from another instance rhs the instance
\* has rhs's four settings and is fresh; a Clone of the instance in any state
\* takes its four settings and is fresh; Assign of the instance to itself
\* changes nothing
C31_CopiesFromAnotherStartFresh ==
  [][ /\ last'.op \in {"Reset", "Setup"} =>
           (this'._NToys = DefaultNToys /\ this'._verbose = DefaultVerbose)
      /\ (last'.op = "Assign" /\ last'.arg # "self") =>
           (Fresh(this') /\ \E rhs \in Others : Takes(this', rhs))
      /\ (last'.op = "Assign" /\ last'.arg = "self") => this' = this
      /\ Configured(this) => (Takes(Clone(this), this) /\ Fresh(Clone(this)))
    ]_vars

\* Assign from another instance, onto an instance that had unfolded with
\* another toy count
C31_Witness ==
  /\ last.op = "Assign" /\ last.arg = ""
  /\ Len(this._rec) > 0
  /\ this._NToys = 1 /\ this._verbose = 2
====
